---- MODULE Spec2Model ----
(***************************************************************************)
(* Model of backend/services/wav2lip_service.py (Wav2LipService) and of    *)
(* its HTTP entry point in backend/app.py (generate_wav2lip).              *)
(*                                                                         *)
(* A job is one invocation of Wav2LipService.generate.  Each job runs in   *)
(* a request thread (a slot of Jobs); the file system under AVATARS_DIR,   *)
(* MODELS_DIR, WAV2LIP_DIR and TEMP_DIR is shared by all jobs.             *)
(***************************************************************************)
EXTENDS Integers, Sequences, FiniteSets, TLC

\* ------------------------------------------------------------------ bounds
NumJobs == 2        \* request threads (slots that run generate)
MaxCalls == 1       \* requests served in one behaviour
MaxFrames == 2      \* frames the avatar video may hold
MaxSharedCalls == 3 \* calls made on one shared Wav2LipService
MaxCoord == 4       \* rectangles have their coordinates in -1..MaxCoord
MaxKeys == 2        \* parameters a checkpoint may hold
MaxLessons == 2     \* lessons a course generation job may have
MaxCourseCalls == 2 \* calls made on the job of CourseGenerationService
MaxTokens == 1      \* refresh tokens issued in one behaviour
MaxTime == 1        \* days the clock advances

\* ------------------------------------------------------- program constants
mel_step_size == 16
batch_size == 128
DefaultFps == 25
MelStepsPerSecond == 80
img_size == 96
detector_batch_size == 16
\* pads = [0, 10, 0, 0]: top, bottom, left, right
pads == <<0, 10, 0, 0>>

Jobs == 1..NumJobs

None == "None"
\* File contents are <<kind, origin>>; Absent is the content of no file.
Absent == <<"absent", "">>

\* ------------------------------------------------------------------- paths
\* A path is <<directory, stem, suffix>>; NoPath is Python's None for a path.
NoPath == <<"", "", "">>
AvatarFile(stem, ext) == <<"avatars", stem, ext>>
AudioFile(stem, ext) == <<"audio", stem, ext>>
checkpoint_path == <<"models/wav2lip", "wav2lip_gan", ".pth">>
inference_script == <<"Wav2Lip-master", "inference", ".py">>
temp_wav == <<"temp/audio", "temp_audio", ".wav">>
temp_video == <<"temp/video", "temp_result", ".avi">>
\* output_dir / f"{job_id}_lipsync.mp4"
OutputPath(job_id) == <<"temp/video", job_id, "_lipsync.mp4">>

AvatarIds == {"default", "a", "b"}
JobIds == {"j1", "j2"}
AvatarPaths ==
    { AvatarFile(stem, ext) :
        stem \in {"a", "b"}, ext \in {".mp4", ".jpg", ".jpeg", ".png", ".PNG"} }
\* The contents AVATARS_DIR may have when the server starts, each with
\* whether the file system matches names regardless of case.
AvatarDirs ==
    { [files |-> {AvatarFile("a", ".mp4"), AvatarFile("a", ".png"),
                  AvatarFile("b", ".jpg")},
       fold |-> FALSE],
      [files |-> {AvatarFile("a", ".jpeg")}, fold |-> FALSE],
      [files |-> {AvatarFile("b", ".PNG")}, fold |-> TRUE] }
AudioPaths ==
    { AudioFile("speech", ".wav"), AudioFile("voice", ".mp3"),
      AudioFile("missing", ".mp3") }
ExistingAudio == { AudioFile("speech", ".wav"), AudioFile("voice", ".mp3") }
OutputPaths == { OutputPath(id) : id \in JobIds }
Paths ==
    AvatarPaths \cup AudioPaths \cup OutputPaths
        \cup {checkpoint_path, inference_script, temp_wav, temp_video}

\* str.lower() on a file suffix.
Lower(s) ==
    CASE s = ".PNG" -> ".png"
      [] s = ".JPG" -> ".jpg"
      [] s = ".JPEG" -> ".jpeg"
      [] s = ".MP4" -> ".mp4"
      [] OTHER -> s

VARIABLES
    fs,              \* file system: [Paths -> contents], Absent when no file
    case_insensitive,\* whether file names match regardless of case
    _model,          \* Wav2LipService._model of the instance of each request
    loads,           \* number of _load_wav2lip_model calls so far
    started,         \* number of generate invocations so far
    pc,              \* where each job is
    audio_path,      \* generate's arguments
    avatar_id,
    job_id,
    avatar_path,     \* generate's locals
    output_path,
    frames,          \* _process_video_native: len(full_frames)
    chunks,          \* _process_video_native: len(mel_chunks)
    written,         \* frames written to temp_video by this job
    proc,            \* the arguments of the running inference subprocess
    calls,           \* the strategies this job has entered, in order
    result,          \* what each strategy ended with
    outcome,         \* what generate delivered to its caller
    response,        \* the HTTP response of the handler
    \* _process_video_native on the data of one video and one audio track
    inp,             \* the video, the spectrogram and the detector's answers
    stage,           \* where _process_video_native is
    full_frames,     \* full_frames
    mel_chunks,      \* mel_chunks, each <<start, stop>> of mel[:, start:stop]
    face_det_results,\* the list _detect_faces returned
    gen_i,           \* windows _generate_batches has consumed
    batch,           \* the batch _generate_batches yielded last
    pred,            \* pred of that batch
    zip_k,           \* entries of that batch already pasted and written
    out,             \* the frames written to the VideoWriter, in order
    error,           \* the exception that left _process_video_native
    \* _run_wav2lip_native called by several threads on one Wav2LipService
    shared_model,    \* self._model of that instance (NoModel: None)
    tpc,             \* where each thread is in _run_wav2lip_native
    used,            \* the model each thread passed to _process_video_native
    loaded,          \* the models _load_wav2lip_model has returned, in order
    entered,         \* calls of _run_wav2lip_native so far
    \* the bounding box computation of _detect_faces on one rectangle
    clamp_in,        \* the rectangle, the pads and the shape of the image
    clamp_out,       \* (y1, y2, x1, x2) computed from clamp_in
    clamp_twice,     \* the computation applied to clamp_out, without padding
    \* _process_video_native run a second time on the same frames
    run,             \* 1 in the first run, 2 in the second
    first_out,       \* the frames the first run wrote
    changed,         \* the window whose audio differs in the second run
    \* _load_wav2lip_model binding the parameters of a checkpoint
    state_dict,      \* checkpoint["state_dict"]: <<name, value>> in order
    new_state_dict,  \* new_state_dict, in insertion order
    ck_i,            \* items of state_dict the loop of line 237 has taken
    \* CourseGenerationService on the file of one job, called by the threads
    job_file,        \* jobs_dir/<job_id>.json: NoFile, Truncated or the job
    cpc,             \* where each thread is in its call
    cop,             \* the call of each thread: operation and arguments
    cjob,            \* the local variable job of each thread
    cbefore,         \* job_file as it was when the thread's call began
    cret,            \* how the last call of each thread ended
    ccalls,          \* calls begun so far
    \* AuthService on the table refresh_tokens, one session per request
    JWT_REFRESH_TOKEN_EXPIRES, \* the setting of line 17, in seconds
    now,             \* datetime.utcnow(), in days
    refresh_tokens,  \* the committed rows: [token, expires_at]
    issued,          \* tokens generated so far: the tokens are 1..issued
    apc,             \* where each request is in its call
    acall,           \* the call of each request: operation, token, revoked
    afound,          \* the row the query of the call returned
    late_refreshes,  \* [token, outcome] of the refresh calls begun revoked
    logged_out,      \* tokens a returned logout_user was called with
    expired_seen     \* tokens a refresh attempt found expired

envVars == <<fs, case_insensitive>>
svcVars == <<_model, loads>>
argVars == <<audio_path, avatar_id, job_id>>
locVars == <<avatar_path, output_path, frames, chunks, written, proc>>
obsVars == <<calls, result, outcome, response>>
natVars == <<inp, stage, full_frames, mel_chunks, face_det_results, gen_i, batch,
             pred, zip_k, out, error>>
jobVars == <<fs, case_insensitive, _model, loads, started, pc, audio_path, avatar_id, job_id, avatar_path, output_path, frames,
          chunks, written, proc, calls, result, outcome, response>>
shVars == <<shared_model, tpc, used, loaded, entered>>
fnVars == <<clamp_in, clamp_out, clamp_twice>>
runVars == <<run, first_out, changed>>
ckVars == <<state_dict, new_state_dict, ck_i>>
\* The variables of what is not the lip-sync pipeline, and those of it.
courseVars == <<job_file, cpc, cop, cjob, cbefore, cret, ccalls>>
authVars == <<JWT_REFRESH_TOKEN_EXPIRES, now, refresh_tokens, issued, apc, acall,
              afound, late_refreshes, logged_out, expired_seen>>
restVars == <<ckVars, courseVars, authVars>>
wavVars == <<jobVars, natVars, shVars, fnVars, runVars>>
vars == <<wavVars, restVars>>

\* ------------------------------------------------------------ file system
\* The file a path names, or NoPath: exact, or by case-folded name.
Resolve(p) ==
    IF fs[p] # Absent THEN p
    ELSE IF case_insensitive
              /\ \E q \in Paths :
                    /\ fs[q] # Absent
                    /\ q[1] = p[1] /\ q[2] = p[2] /\ Lower(q[3]) = Lower(p[3])
         THEN CHOOSE q \in Paths :
                    /\ fs[q] # Absent
                    /\ q[1] = p[1] /\ q[2] = p[2] /\ Lower(q[3]) = Lower(p[3])
         ELSE NoPath

\* Path.exists()
Exists(p) == Resolve(p) # NoPath

\* AVATARS_DIR.glob('*' + ext)
Glob(ext) ==
    { p \in AvatarPaths :
        /\ fs[p] # Absent
        /\ IF case_insensitive THEN Lower(p[3]) = ext ELSE p[3] = ext }

NoResult ==
    [precondition |-> "none", native |-> "none", subprocess |-> "none",
     copy |-> "none"]
NoOutcome == [kind |-> "none", path |-> NoPath, error |-> ""]
NoProc ==
    [state |-> "none", face |-> NoPath, audio |-> NoPath, outfile |-> NoPath,
     returncode |-> 0, output_exists |-> FALSE]
NoResponse == [status |-> 0, video_path |-> NoPath, error |-> ""]

\* The server starts: the directories hold what earlier runs and the
\* installation left there (stale: an output file of an earlier run).
ServerStart ==
    /\ \E dir \in AvatarDirs, ckpt \in BOOLEAN, script \in BOOLEAN,
          stale \in BOOLEAN :
          /\ fs = [p \in Paths |->
                    IF \/ p \in dir.files
                       \/ p \in ExistingAudio
                       \/ (p = checkpoint_path /\ ckpt)
                       \/ (p = inference_script /\ script)
                    THEN <<"data", p[2]>>  \* the file's own data
                    ELSE IF p = OutputPath("j1") /\ stale
                    THEN <<"stale", "">>
                    ELSE Absent]
          /\ case_insensitive = dir.fold
    /\ _model = [j \in Jobs |-> None]
    /\ loads = 0
    /\ started = 0
    /\ pc = [j \in Jobs |-> "idle"]
    /\ audio_path = [j \in Jobs |-> NoPath]
    /\ avatar_id = [j \in Jobs |-> None]
    /\ job_id = [j \in Jobs |-> None]
    /\ avatar_path = [j \in Jobs |-> NoPath]
    /\ output_path = [j \in Jobs |-> NoPath]
    /\ frames = [j \in Jobs |-> 0]
    /\ chunks = [j \in Jobs |-> 0]
    /\ written = [j \in Jobs |-> 0]
    /\ proc = [j \in Jobs |-> NoProc]
    /\ calls = [j \in Jobs |-> <<>>]
    /\ result = [j \in Jobs |-> NoResult]
    /\ outcome = [j \in Jobs |-> NoOutcome]
    /\ response = [j \in Jobs |-> NoResponse]

\* No video is being processed at the level of its data.
NoInput ==
    [nframes |-> 0, h |-> 0, w |-> 0, fps |-> 0, mel_len |-> 0, img_size |-> 0,
     batch_size |-> 0, rects |-> <<>>]
NoBatch ==
    [img_batch |-> <<>>, mel_batch |-> <<>>, frame_batch |-> <<>>,
     coords_batch |-> <<>>]
NatIdle ==
    /\ inp = NoInput
    /\ stage = "idle"
    /\ full_frames = <<>>
    /\ mel_chunks = <<>>
    /\ face_det_results = <<>>
    /\ gen_i = 0
    /\ batch = NoBatch
    /\ pred = <<>>
    /\ zip_k = 0
    /\ out = <<>>
    /\ error = ""

\* No thread is inside _run_wav2lip_native of a shared instance.
NoModel == 0
SharedIdle ==
    /\ shared_model = NoModel
    /\ tpc = [j \in Jobs |-> "idle"]
    /\ used = [j \in Jobs |-> NoModel]
    /\ loaded = <<>>
    /\ entered = 0

\* No bounding box is being computed on its own.
NoClampInput == [rect |-> <<>>, pads |-> <<>>, h |-> 0, w |-> 0]
ClampIdle ==
    /\ clamp_in = NoClampInput
    /\ clamp_out = <<>>
    /\ clamp_twice = <<>>

\* _process_video_native has been called once at most.
FirstRun ==
    /\ run = 1
    /\ first_out = <<>>
    /\ changed = 0

\* No checkpoint is being bound.
CheckpointIdle ==
    /\ state_dict = <<>>
    /\ new_state_dict = <<>>
    /\ ck_i = 0

\* No job file exists and no thread is in a call of CourseGenerationService.
NoFile == [exists |-> FALSE]
NoUpdates == [nothing |-> TRUE]
\* lesson_index is <<>> for None and <<i>> for the integer i.
NoCall == [op |-> "none", lesson_index |-> <<>>, updates |-> NoUpdates]
CourseThreadsIdle ==
    /\ cpc = [w \in Jobs |-> "idle"]
    /\ cop = [w \in Jobs |-> NoCall]
    /\ cjob = [w \in Jobs |-> NoFile]
    /\ cbefore = [w \in Jobs |-> NoFile]
    /\ cret = [w \in Jobs |-> "none"]
    /\ ccalls = 0
CourseIdle == job_file = NoFile /\ CourseThreadsIdle

\* No refresh token is stored and no request is in a call of AuthService.
NoRow == [found |-> FALSE]
NoAuthCall == [op |-> "none", token |-> 0, revoked |-> FALSE]
AuthRequestsIdle ==
    /\ apc = [w \in Jobs |-> "idle"]
    /\ acall = [w \in Jobs |-> NoAuthCall]
    /\ afound = [w \in Jobs |-> NoRow]
    /\ late_refreshes = {}
    /\ logged_out = {}
    /\ expired_seen = {}
AuthIdle ==
    /\ JWT_REFRESH_TOKEN_EXPIRES = 2592000
    /\ now = 0
    /\ refresh_tokens = {}
    /\ issued = 0
    /\ AuthRequestsIdle

RestIdle == CheckpointIdle /\ CourseIdle /\ AuthIdle

Init == ServerStart /\ NatIdle /\ SharedIdle /\ ClampIdle /\ FirstRun /\ RestIdle

\* ------------------------------------------------------------ local steps
Goto(j, label) == pc' = [pc EXCEPT ![j] = label]

\* generate returns output_path to its caller.
Return(j) ==
    /\ outcome' = [outcome EXCEPT ![j] =
            [kind |-> "returned", path |-> output_path[j], error |-> ""]]
    /\ Goto(j, "done")

\* An exception leaves generate and reaches its caller.
Propagate(j, e) ==
    /\ outcome' = [outcome EXCEPT ![j] =
            [kind |-> "raised", path |-> NoPath, error |-> e]]
    /\ Goto(j, "done")

\* ------------------------------------------------------------- entry point
\* POST /api/wav2lip/generate, lines 315-331: a request without audio_path
\* is answered 400; otherwise a new Wav2LipService is constructed (its
\* _model is None) and generate is called on it.
Handle(j, a, av, id) ==
    /\ started' = started + 1
    /\ IF a = NoPath
       THEN /\ response' = [response EXCEPT ![j] =
                   [status |-> 400, video_path |-> NoPath,
                    error |-> "Audio path is required"]]
            /\ Goto(j, "responded")
            /\ UNCHANGED <<_model, argVars>>
       ELSE /\ _model' = [_model EXCEPT ![j] = None]
            /\ audio_path' = [audio_path EXCEPT ![j] = a]
            /\ avatar_id' = [avatar_id EXCEPT ![j] = av]
            /\ job_id' = [job_id EXCEPT ![j] = id]
            /\ Goto(j, "generate")
            /\ UNCHANGED response
    /\ UNCHANGED <<envVars, loads, locVars, calls, result, outcome>>
    /\ UNCHANGED <<natVars, shVars, fnVars, runVars, restVars>>

\* A request with any audio path, avatar id and job id arrives.
generate_wav2lip(j) ==
    /\ pc[j] = "idle"
    /\ started < MaxCalls
    /\ \E a \in AudioPaths \cup {NoPath}, av \in AvatarIds, id \in JobIds :
          Handle(j, a, av, id)

\* A request for the video avatar "a" arrives, with the audio file
\* voice.mp3 and the job id of its thread; each thread serves one request.
VideoRequest(j) ==
    /\ pc[j] = "idle"
    /\ started < NumJobs
    /\ Handle(j, AudioFile("voice", ".mp3"), "a", IF j = 1 THEN "j1" ELSE "j2")

\* ---------------------------------------------------------------- generate
\* GenerateCheckAudio without the existence check.
GenerateCheckAudio_Unchecked(j) ==
    /\ pc[j] = "generate"
    /\ Goto(j, "get_avatar")
    /\ UNCHANGED <<envVars, svcVars, started, argVars, locVars, obsVars>>
    /\ UNCHANGED <<natVars, shVars, fnVars, runVars, restVars>>

\* generate, lines 75-78: the audio file must exist.
GenerateCheckAudio(j) ==
    /\ pc[j] = "generate"
    /\ IF ~Exists(audio_path[j])
       THEN Propagate(j, "FileNotFoundError: Audio file not found")
       ELSE Goto(j, "get_avatar") /\ UNCHANGED outcome
    /\ UNCHANGED <<envVars, svcVars, started, argVars, locVars, calls, result,
                   response>>
    /\ UNCHANGED <<natVars, shVars, fnVars, runVars, restVars>>

\* The extensions _get_avatar_path tries for a named avatar, in order.
AvatarExts == <<".mp4", ".jpg", ".jpeg", ".png">>

\* _get_avatar_path: the paths it may return; the empty set when it raises.
_get_avatar_path(id) ==
    IF id = "default"
    THEN IF Glob(".mp4") # {} THEN Glob(".mp4")
         ELSE IF Glob(".jpg") # {} THEN Glob(".jpg")
         ELSE Glob(".png")
    ELSE LET found == { k \in 1..Len(AvatarExts) :
                          Exists(AvatarFile(id, AvatarExts[k])) }
         IN  IF found = {} THEN {}
             ELSE { AvatarFile(id, AvatarExts[
                        CHOOSE k \in found : \A m \in found : k <= m]) }

\* generate, lines 80-86: locate the avatar, fix the output path.
GenerateGetAvatar(j) ==
    /\ pc[j] = "get_avatar"
    /\ IF _get_avatar_path(avatar_id[j]) = {}
       THEN /\ Propagate(j, IF avatar_id[j] = "default"
                            THEN "FileNotFoundError: No avatar files found"
                            ELSE "FileNotFoundError: Avatar not found")
            /\ UNCHANGED <<avatar_path, output_path>>
       ELSE /\ \E p \in _get_avatar_path(avatar_id[j]) :
                  avatar_path' = [avatar_path EXCEPT ![j] = p]
            /\ output_path' = [output_path EXCEPT ![j] = OutputPath(job_id[j])]
            /\ Goto(j, "run_wav2lip")
            /\ UNCHANGED outcome
    /\ UNCHANGED <<envVars, svcVars, started, argVars, frames, chunks, written,
                   proc, calls, result, response>>
    /\ UNCHANGED <<natVars, shVars, fnVars, runVars, restVars>>

\* is_image without '.jpeg' in its list (as the glob of the default avatar).
is_image_NoJpeg(face_path) == Lower(face_path[3]) \in {".jpg", ".png"}

\* face_path.suffix.lower() in ['.jpg', '.jpeg', '.png']
is_image(face_path) == Lower(face_path[3]) \in {".jpg", ".jpeg", ".png"}

\* _run_wav2lip, lines 127-147: the checkpoint check and the choice of the
\* first strategy.  The FileNotFoundError of a missing checkpoint is raised
\* inside generate's try block.
_run_wav2lip(j) ==
    /\ pc[j] = "run_wav2lip"
    /\ IF ~Exists(checkpoint_path)
       THEN /\ result' = [result EXCEPT ![j].precondition =
                    "FileNotFoundError: Wav2Lip model not found"]
            /\ Goto(j, "except")
       ELSE /\ Goto(j, IF is_image(avatar_path[j]) THEN "subprocess" ELSE "native")
            /\ UNCHANGED result
    /\ UNCHANGED <<envVars, svcVars, started, argVars, locVars, calls, outcome,
                   response>>
    /\ UNCHANGED <<natVars, shVars, fnVars, runVars, restVars>>

\* ------------------------------------------------------- native strategy
\* NativeRaise without the try block of _run_wav2lip: the exception goes
\* straight to generate.
NativeRaise_NoFallback(j, e) ==
    /\ result' = [result EXCEPT ![j].native = e]
    /\ Goto(j, "except")

\* An exception inside _run_wav2lip_native is caught by _run_wav2lip
\* (lines 152-154), which then runs the subprocess strategy.
NativeRaise(j, e) ==
    /\ result' = [result EXCEPT ![j].native = e]
    /\ Goto(j, "subprocess")

\* _run_wav2lip_native, lines 177-197: import the Wav2Lip modules.
_run_wav2lip_native(j) ==
    /\ pc[j] = "native"
    /\ calls' = [calls EXCEPT ![j] = Append(@, "native")]
    /\ \E importable \in BOOLEAN :
          IF importable
          THEN Goto(j, "load_model") /\ UNCHANGED result
          ELSE NativeRaise(j, "ImportError: Failed to import Wav2Lip modules")
    /\ UNCHANGED <<envVars, svcVars, started, argVars, locVars, outcome, response>>
    /\ UNCHANGED <<natVars, shVars, fnVars, runVars, restVars>>

\* _run_wav2lip_native, lines 199-202: load the model unless the service
\* instance holds one.
LoadModel(j) ==
    /\ pc[j] = "load_model"
    /\ IF _model[j] = None
       THEN /\ loads' = loads + 1
            /\ \E readable \in BOOLEAN :
                  IF readable
                  THEN /\ _model' = [_model EXCEPT ![j] = "loaded"]
                       /\ Goto(j, "read_frames")
                       /\ UNCHANGED result
                  ELSE /\ NativeRaise(j, "RuntimeError: checkpoint not loadable")
                       /\ UNCHANGED _model
       ELSE /\ Goto(j, "read_frames")
            /\ UNCHANGED <<svcVars, result>>
    /\ UNCHANGED <<envVars, started, argVars, locVars, calls, outcome, response>>
    /\ UNCHANGED <<natVars, shVars, fnVars, runVars, restVars>>

\* _process_video_native, lines 273-288: read every frame of the video.
ReadFrames(j) ==
    /\ pc[j] = "read_frames"
    /\ \E n \in 0..MaxFrames :
          /\ frames' = [frames EXCEPT ![j] = n]
          /\ IF n = 0
             THEN NativeRaise(j, "ValueError: Could not read frames")
             ELSE Goto(j, "load_audio") /\ UNCHANGED result
    /\ UNCHANGED <<envVars, svcVars, started, argVars, avatar_path, output_path,
                   chunks, written, proc, calls, outcome, response>>
    /\ UNCHANGED <<natVars, shVars, fnVars, runVars, restVars>>

\* _process_video_native, lines 290-301: convert the audio to wav when it is
\* not one (ffmpeg's exit status is ignored), then load it.
LoadAudio(j) ==
    /\ pc[j] = "load_audio"
    /\ \E converted \in BOOLEAN :
          LET convert == audio_path[j][3] # ".wav"
              fs1 == IF convert /\ converted
                     THEN [fs EXCEPT ![temp_wav] = <<"wav", audio_path[j][2]>>]
                     ELSE fs
              audio_file == IF convert THEN temp_wav ELSE audio_path[j]
          IN  /\ fs' = fs1
              /\ IF fs1[audio_file] = Absent
                 THEN NativeRaise(j, "FileNotFoundError: wav not loadable")
                 ELSE Goto(j, "mel") /\ UNCHANGED result
    /\ UNCHANGED <<case_insensitive, svcVars, started, argVars, locVars, calls,
                   outcome, response>>
    /\ UNCHANGED <<natVars, shVars, fnVars, runVars, restVars>>

\* The lengths len(mel[0]) the spectrogram of a job may have.
MelLens == {8, 16, 19}

\* Lines 307-317: the number of mel chunks of a spectrogram of mel_len steps,
\* counted from chunk index i.
RECURSIVE NumChunks(_, _, _)
NumChunks(mel_len, fps, i) ==
    IF (i * MelStepsPerSecond) \div fps + mel_step_size > mel_len
    THEN i + 1
    ELSE NumChunks(mel_len, fps, i + 1)

Min(a, b) == IF a <= b THEN a ELSE b

\* _process_video_native, lines 302-322: the spectrogram, its NaN check, the
\* mel chunks, and the trim of full_frames to the number of chunks.
MelChunks(j) ==
    /\ pc[j] = "mel"
    /\ \E mel_len \in MelLens, nan \in BOOLEAN :
          IF nan
          THEN /\ NativeRaise(j, "ValueError: Mel spectrogram contains NaN values")
               /\ UNCHANGED <<frames, chunks>>
          ELSE /\ chunks' = [chunks EXCEPT ![j] = NumChunks(mel_len, DefaultFps, 0)]
               /\ frames' = [frames EXCEPT ![j] =
                       Min(@, NumChunks(mel_len, DefaultFps, 0))]
               /\ Goto(j, "detect")
               /\ UNCHANGED result
    /\ UNCHANGED <<envVars, svcVars, started, argVars, avatar_path, output_path,
                   written, proc, calls, outcome, response>>
    /\ UNCHANGED <<natVars, shVars, fnVars, runVars, restVars>>

\* _detect_faces (lines 385-414) on the trimmed frames, then lines 334-343:
\* open the writer of the temporary video.  no_face is the position of a
\* frame of the source video without a detectable face (0: there is none).
DetectFaces(j) ==
    /\ pc[j] = "detect"
    /\ \E no_face \in 0..MaxFrames :
          IF 1 <= no_face /\ no_face <= frames[j]
          THEN /\ NativeRaise(j, "ValueError: Face not detected in frame")
               /\ UNCHANGED fs
          ELSE /\ fs' = [fs EXCEPT ![temp_video] = <<"frames", job_id[j]>>]
               /\ Goto(j, "infer")
               /\ UNCHANGED result
    /\ UNCHANGED <<case_insensitive, svcVars, started, argVars, locVars, calls,
                   outcome, response>>
    /\ UNCHANGED <<natVars, shVars, fnVars, runVars, restVars>>

\* Lines 346-361: the model is called on the next batch.
Infer(j) ==
    /\ pc[j] = "infer"
    /\ \E ok \in BOOLEAN :
          IF ok
          THEN Goto(j, "paste") /\ UNCHANGED result
          ELSE NativeRaise(j, "RuntimeError: inference failed")
    /\ UNCHANGED <<envVars, svcVars, started, argVars, locVars, calls, outcome,
                   response>>
    /\ UNCHANGED <<natVars, shVars, fnVars, runVars, restVars>>

\* Lines 363-367: one entry of the batch is resized, pasted and written.
Paste(j) ==
    /\ pc[j] = "paste"
    /\ \E ok \in BOOLEAN :
          IF ok
          THEN /\ written' = [written EXCEPT ![j] = @ + 1]
               /\ Goto(j, IF written[j] + 1 = chunks[j] THEN "mux"
                           ELSE IF (written[j] + 1) % batch_size = 0 THEN "infer"
                           ELSE "paste")
               /\ UNCHANGED result
          ELSE /\ NativeRaise(j, "cv2.error: resize failed")
               /\ UNCHANGED written
    /\ UNCHANGED <<envVars, svcVars, started, argVars, avatar_path, output_path,
                   frames, chunks, proc, calls, outcome, response>>
    /\ UNCHANGED <<natVars, shVars, fnVars, runVars, restVars>>

\* Lines 369-379: release the writer and mux audio and frames with ffmpeg,
\* whose exit status is ignored; ffmpeg writes nothing without its input.
Mux(j) ==
    /\ pc[j] = "mux"
    /\ \E muxed \in BOOLEAN :
          fs' = IF muxed /\ fs[temp_video] # Absent
                THEN [fs EXCEPT ![output_path[j]] = <<"lipsync-native", fs[temp_video][2]>>]
                ELSE fs
    /\ Goto(j, "cleanup")
    /\ UNCHANGED <<case_insensitive, svcVars, started, argVars, locVars, obsVars>>
    /\ UNCHANGED <<natVars, shVars, fnVars, runVars, restVars>>

\* Lines 381-383 and the returns of _run_wav2lip_native, _run_wav2lip and
\* generate (line 91).
Cleanup(j) ==
    /\ pc[j] = "cleanup"
    /\ fs' = [fs EXCEPT ![temp_video] = Absent]
    /\ result' = [result EXCEPT ![j].native = "ok"]
    /\ Return(j)
    /\ UNCHANGED <<case_insensitive, svcVars, started, argVars, locVars, calls,
                   response>>
    /\ UNCHANGED <<natVars, shVars, fnVars, runVars, restVars>>

\* ---------------------------------------------------- subprocess strategy
\* An exception of _run_wav2lip_subprocess leaves _run_wav2lip (it is raised
\* at line 146 or inside the handler at line 154) and is caught by generate
\* (line 92).
SubprocessRaise(j, e) ==
    /\ result' = [result EXCEPT ![j].subprocess = e]
    /\ Goto(j, "except")

\* The arguments _run_wav2lip passes down to _run_wav2lip_subprocess, which
\* become --face, --audio and --outfile of the command line (lines 492-500).
SubprocessArgs(j) ==
    [face |-> avatar_path[j], audio |-> audio_path[j], outfile |-> output_path[j]]

\* _run_wav2lip_subprocess, lines 476-511: inference.py must exist; then the
\* inference process is started.
_run_wav2lip_subprocess(j) ==
    /\ pc[j] = "subprocess"
    /\ calls' = [calls EXCEPT ![j] = Append(@, "subprocess")]
    /\ IF ~Exists(inference_script)
       THEN /\ SubprocessRaise(j, "FileNotFoundError: Wav2Lip inference.py not found")
            /\ UNCHANGED proc
       ELSE /\ proc' = [proc EXCEPT ![j] =
                    [state |-> "running",
                     face |-> SubprocessArgs(j).face,
                     audio |-> SubprocessArgs(j).audio,
                     outfile |-> SubprocessArgs(j).outfile,
                     returncode |-> 0, output_exists |-> FALSE]]
            /\ Goto(j, "wait")
            /\ UNCHANGED result
    /\ UNCHANGED <<envVars, svcVars, started, argVars, avatar_path, output_path,
                   frames, chunks, written, outcome, response>>
    /\ UNCHANGED <<natVars, shVars, fnVars, runVars, restVars>>

\* SubprocessError without the check that the output file exists.
SubprocessError_NoExistsCheck(returncode, output_exists) ==
    IF returncode # 0 THEN "RuntimeError: Wav2Lip inference failed" ELSE ""

\* Lines 513-518: what _run_wav2lip_subprocess raises once the process has
\* exited with returncode, "" when it raises nothing.
SubprocessError(returncode, output_exists) ==
    IF returncode # 0 THEN "RuntimeError: Wav2Lip inference failed"
    ELSE IF ~output_exists
         THEN "RuntimeError: Wav2Lip did not produce output file"
         ELSE ""

\* The inference process exits (subprocess.run returns), having written its
\* --outfile or not; lines 513-520 and the return of generate (line 91).
SubprocessExit(j) ==
    /\ pc[j] = "wait"
    /\ \E rc \in {0, 1}, wrote \in BOOLEAN :
          LET fs1 == IF wrote
                     THEN [fs EXCEPT ![proc[j].outfile] =
                              <<"lipsync-subprocess", proc[j].face[2]>>]
                     ELSE fs
              there == fs1[output_path[j]] # Absent
          IN  /\ fs' = fs1
              /\ proc' = [proc EXCEPT ![j].state = "exited",
                                      ![j].returncode = rc,
                                      ![j].output_exists = there]
              /\ IF SubprocessError(rc, there) # ""
                 THEN /\ SubprocessRaise(j, SubprocessError(rc, there))
                      /\ UNCHANGED outcome
                 ELSE /\ result' = [result EXCEPT ![j].subprocess = "ok"]
                      /\ Return(j)
    /\ UNCHANGED <<case_insensitive, svcVars, started, argVars, avatar_path,
                   output_path, frames, chunks, written, calls, response>>
    /\ UNCHANGED <<natVars, shVars, fnVars, runVars, restVars>>

\* ------------------------------------------------------------- passthrough
\* Passthrough that swallows a failure of the copy and returns the path.
Passthrough_Swallow(j) ==
    /\ pc[j] = "except"
    /\ calls' = [calls EXCEPT ![j] = Append(@, "copy")]
    /\ \E copyable \in BOOLEAN :
          IF copyable /\ Exists(avatar_path[j])
          THEN /\ fs' = [fs EXCEPT ![output_path[j]] = fs[Resolve(avatar_path[j])]]
               /\ result' = [result EXCEPT ![j].copy = "ok"]
               /\ Return(j)
          ELSE /\ result' = [result EXCEPT ![j].copy = "OSError: copy failed"]
               /\ Return(j)
               /\ UNCHANGED fs
    /\ UNCHANGED <<case_insensitive, svcVars, started, argVars, locVars, response>>
    /\ UNCHANGED <<natVars, shVars, fnVars, runVars, restVars>>

\* Passthrough that re-raises the caught exception after a successful copy.
Passthrough_Reraise(j) ==
    /\ pc[j] = "except"
    /\ calls' = [calls EXCEPT ![j] = Append(@, "copy")]
    /\ \E copyable \in BOOLEAN :
          IF copyable /\ Exists(avatar_path[j])
          THEN /\ fs' = [fs EXCEPT ![output_path[j]] = fs[Resolve(avatar_path[j])]]
               /\ result' = [result EXCEPT ![j].copy = "ok"]
               /\ Propagate(j, "Wav2Lip generation failed")
          ELSE /\ result' = [result EXCEPT ![j].copy = "OSError: copy failed"]
               /\ Propagate(j, "OSError: copy failed")
               /\ UNCHANGED fs
    /\ UNCHANGED <<case_insensitive, svcVars, started, argVars, locVars, response>>
    /\ UNCHANGED <<natVars, shVars, fnVars, runVars, restVars>>

\* Passthrough that returns the avatar's path after the copy.
Passthrough_ReturnsAvatar(j) ==
    /\ pc[j] = "except"
    /\ calls' = [calls EXCEPT ![j] = Append(@, "copy")]
    /\ \E copyable \in BOOLEAN :
          IF copyable /\ Exists(avatar_path[j])
          THEN /\ fs' = [fs EXCEPT ![output_path[j]] = fs[Resolve(avatar_path[j])]]
               /\ result' = [result EXCEPT ![j].copy = "ok"]
               /\ outcome' = [outcome EXCEPT ![j] =
                      [kind |-> "returned", path |-> avatar_path[j], error |-> ""]]
               /\ Goto(j, "done")
          ELSE /\ result' = [result EXCEPT ![j].copy = "OSError: copy failed"]
               /\ Propagate(j, "OSError: copy failed")
               /\ UNCHANGED fs
    /\ UNCHANGED <<case_insensitive, svcVars, started, argVars, locVars, response>>
    /\ UNCHANGED <<natVars, shVars, fnVars, runVars, restVars>>

\* generate, lines 92-98: any exception of _run_wav2lip is caught and the
\* avatar is copied to the output path; an exception of the copy leaves
\* generate.
Passthrough(j) ==
    /\ pc[j] = "except"
    /\ calls' = [calls EXCEPT ![j] = Append(@, "copy")]
    /\ \E copyable \in BOOLEAN :
          IF copyable /\ Exists(avatar_path[j])
          THEN /\ fs' = [fs EXCEPT ![output_path[j]] = fs[Resolve(avatar_path[j])]]
               /\ result' = [result EXCEPT ![j].copy = "ok"]
               /\ Return(j)
          ELSE /\ result' = [result EXCEPT ![j].copy = "OSError: copy failed"]
               /\ Propagate(j, "OSError: copy failed")
               /\ UNCHANGED fs
    /\ UNCHANGED <<case_insensitive, svcVars, started, argVars, locVars, response>>
    /\ UNCHANGED <<natVars, shVars, fnVars, runVars, restVars>>

\* ----------------------------------------------------------------- callers
\* generate_wav2lip, lines 333-341: 200 with the video path, or 500 with the
\* error.
Respond(j) ==
    /\ pc[j] = "done"
    /\ response' = [response EXCEPT ![j] =
          IF outcome[j].kind = "returned"
          THEN [status |-> 200, video_path |-> outcome[j].path, error |-> ""]
          ELSE [status |-> 500, video_path |-> NoPath, error |-> outcome[j].error]]
    /\ Goto(j, "responded")
    /\ UNCHANGED <<envVars, svcVars, started, argVars, locVars, calls, result,
                   outcome>>
    /\ UNCHANGED <<natVars, shVars, fnVars, runVars, restVars>>

\* The request thread ends; its frame is gone.
Finish(j) ==
    /\ pc[j] = "responded"
    /\ Goto(j, "idle")
    /\ audio_path' = [audio_path EXCEPT ![j] = NoPath]
    /\ avatar_id' = [avatar_id EXCEPT ![j] = None]
    /\ job_id' = [job_id EXCEPT ![j] = None]
    /\ avatar_path' = [avatar_path EXCEPT ![j] = NoPath]
    /\ output_path' = [output_path EXCEPT ![j] = NoPath]
    /\ frames' = [frames EXCEPT ![j] = 0]
    /\ chunks' = [chunks EXCEPT ![j] = 0]
    /\ written' = [written EXCEPT ![j] = 0]
    /\ proc' = [proc EXCEPT ![j] = NoProc]
    /\ calls' = [calls EXCEPT ![j] = <<>>]
    /\ result' = [result EXCEPT ![j] = NoResult]
    /\ outcome' = [outcome EXCEPT ![j] = NoOutcome]
    /\ response' = [response EXCEPT ![j] = NoResponse]
    /\ _model' = [_model EXCEPT ![j] = None]
    /\ UNCHANGED <<envVars, loads, started>>
    /\ UNCHANGED <<natVars, shVars, fnVars, runVars, restVars>>

\* ------------------------------------------------------------ specification
\* Spec serves one request at a time: a request is admitted when no other
\* is under way.
Sequential(j) == \A k \in Jobs \ {j} : pc[k] = "idle"

\* The steps the request thread takes by itself.
ProgramStep(j) ==
    \/ GenerateCheckAudio(j)
    \/ GenerateGetAvatar(j)
    \/ _run_wav2lip(j)
    \/ _run_wav2lip_native(j)
    \/ LoadModel(j)
    \/ ReadFrames(j)
    \/ LoadAudio(j)
    \/ MelChunks(j)
    \/ DetectFaces(j)
    \/ Infer(j)
    \/ Paste(j)
    \/ Mux(j)
    \/ Cleanup(j)
    \/ _run_wav2lip_subprocess(j)
    \/ Passthrough(j)
    \/ Respond(j)
    \/ Finish(j)

\* SubprocessExit is the step of the inference process, not of the thread.
Step(j) ==
    \/ ProgramStep(j)
    \/ SubprocessExit(j)

Next ==
    \E j \in Jobs :
        \/ Sequential(j) /\ generate_wav2lip(j)
        \/ Step(j)

Spec == Init /\ [][Next]_vars

\* A request thread that can take a step eventually takes one.  Nothing
\* makes the inference process exit: subprocess.run (lines 505-511) is
\* called without timeout=, so it returns only when the process does.
SpecFair == Spec /\ \A j \in Jobs : WF_vars(ProgramStep(j))

\* The server as installed: avatars/a.mp4, the checkpoint and inference.py
\* are there, no output of an earlier run is.
Installed ==
    /\ ServerStart
    /\ ~case_insensitive
    /\ fs[AvatarFile("a", ".mp4")] # Absent
    /\ fs[checkpoint_path] # Absent
    /\ fs[inference_script] # Absent
    /\ fs[OutputPath("j1")] = Absent
InitVideo == Installed /\ NatIdle /\ SharedIdle /\ ClampIdle /\ FirstRun /\ RestIdle

\* SpecTwo serves video requests one after the other.
NextTwo ==
    \E j \in Jobs :
        \/ Sequential(j) /\ VideoRequest(j)
        \/ Step(j)
SpecTwo == InitVideo /\ [][NextTwo]_vars

\* SpecConcurrent serves them in concurrent request threads (app.run, line
\* 636, serves each request in a thread of its own).
NextConcurrent ==
    \E j \in Jobs :
        \/ VideoRequest(j)
        \/ Step(j)
SpecConcurrent == InitVideo /\ [][NextConcurrent]_vars

\* ------------------------------------------------------------------ images
\* An image is a sequence of rows, a row a sequence of pixels; a pixel is
\* one number in 0..255 standing for its three colour channels.
Height(image) == Len(image)
Width(image) == IF Len(image) = 0 THEN 0 ELSE Len(image[1])
IsEmpty(image) == Height(image) = 0 \/ Width(image) = 0
Max(a, b) == IF a >= b THEN a ELSE b

\* Frame k of the video as video_stream.read() delivers it (lines 277-283):
\* the frames of a video differ from one another.
Frame(k, h, w) ==
    [r \in 1..h |-> [c \in 1..w |-> (37 * k + (r - 1) * w + c) % 256]]

\* A bound i of a Python slice over n items: negative counts from the end.
SliceBound(i, n) ==
    IF i < 0 THEN Max(0, n + i) ELSE Min(i, n)

\* image[y1:y2, x1:x2]
Crop(image, y1, y2, x1, x2) ==
    LET r0 == SliceBound(y1, Height(image))
        r1 == SliceBound(y2, Height(image))
        c0 == SliceBound(x1, Width(image))
        c1 == SliceBound(x2, Width(image))
    IN  [r \in 1..Max(0, r1 - r0) |->
            [c \in 1..Max(0, c1 - c0) |-> image[r0 + r][c0 + c]]]

\* cv2.resize(src, (width, height)) raises cv2.error for an empty source or
\* a size that is not positive.
ResizeFails(src, width, height) ==
    IsEmpty(src) \/ width <= 0 \/ height <= 0

\* cv2.resize(src, (width, height)): height rows of width pixels, each taken
\* from the source at the scaled position (the interpolation between
\* neighbouring pixels is left out).
Resize(src, width, height) ==
    [r \in 1..height |->
        [c \in 1..width |->
            src[((r - 1) * Height(src)) \div height + 1]
               [((c - 1) * Width(src)) \div width + 1]]]

\* ------------------------------------------------------------- mel chunks
\* Line 312: start_idx = int(i * mel_idx_multiplier), with
\* mel_idx_multiplier = 80.0 / fps.
StartIdx(fps, i) == (i * MelStepsPerSecond) \div fps

\* PastEnd that tests the start of the window only.
PastEnd_StartOnly(mel_len, fps, i) == StartIdx(fps, i) > mel_len

\* PastEnd with >= in place of >.
PastEnd_Inclusive(mel_len, fps, i) == StartIdx(fps, i) + mel_step_size >= mel_len

\* Line 313: the window of frame i would pass the end of the spectrogram.
PastEnd(mel_len, fps, i) == StartIdx(fps, i) + mel_step_size > mel_len

\* Lines 314 and 316: the window appended for frame i, <<start, stop>> of
\* mel[:, start:stop]; past the end it is mel[:, len(mel[0]) - mel_step_size:].
MelWindow(mel_len, fps, i) ==
    IF PastEnd(mel_len, fps, i)
    THEN <<SliceBound(mel_len - mel_step_size, mel_len), mel_len>>
    ELSE <<StartIdx(fps, i), StartIdx(fps, i) + mel_step_size>>

\* ---------------------------------------------------------- face detection
\* The detector answers <<x1, y1, x2, y2>> for a frame, or NoRect (None).
NoRect == <<>>
DetectorAnswers ==
    { <<0, 0, 2, 2>>, <<0, 1, 1, 2>>, <<1, 1, 2, 3>>, <<-1, -1, 1, 1>>,
      <<0, 0, 4, 5>>, <<1, 0, 1, 2>>, NoRect }
\* The answer for frame k (1-based): the answers of inp.rects, repeated.
RectOf(rects, k) == rects[((k - 1) % Len(rects)) + 1]

\* Predictions over the full groups only: a last group of fewer than
\* detector_batch_size frames is left out.
RECURSIVE Predictions_FullGroups(_, _, _)
Predictions_FullGroups(nframes, rects, i) ==
    IF i + detector_batch_size > nframes THEN <<>>
    ELSE [k \in 1..detector_batch_size |-> RectOf(rects, i + k)]
            \o Predictions_FullGroups(nframes, rects, i + detector_batch_size)

\* Lines 389-395: predictions, gathered over groups of detector_batch_size
\* frames starting at frame i (0-based).
RECURSIVE Predictions(_, _, _)
Predictions(nframes, rects, i) ==
    IF i >= nframes THEN <<>>
    ELSE [k \in 1..Min(detector_batch_size, nframes - i) |-> RectOf(rects, i + k)]
            \o Predictions(nframes, rects, i + detector_batch_size)

\* PadAndClamp that keeps the box one pixel inside the lower and right edges.
PadAndClamp_Inside(rect, pad, h, w) ==
    << Max(0, rect[2] - pad[1]),
       Min(h - 1, rect[4] + pad[2]),
       Max(0, rect[1] - pad[3]),
       Min(w - 1, rect[3] + pad[4]) >>

\* Lines 398 and 407-410: pady1, pady2, padx1, padx2 = pads, and
\* <<y1, y2, x1, x2>> for a rectangle <<x1, y1, x2, y2>> in an image of h rows
\* and w columns.
PadAndClamp(rect, pad, h, w) ==
    << Max(0, rect[2] - pad[1]),
       Min(h, rect[4] + pad[2]),
       Max(0, rect[1] - pad[3]),
       Min(w, rect[3] + pad[4]) >>

\* Lines 407-410 with the pads of line 271: the crop coordinates of a frame.
Coords(rect, image) == PadAndClamp(rect, pads, Height(image), Width(image))

\* Lines 400-414: zip(predictions, frames) stops with the shorter list.
FaceNotDetected(predictions, frames_) ==
    \E k \in 1..Min(Len(predictions), Len(frames_)) : predictions[k] = NoRect
DetectedFaces(predictions, frames_) ==
    [k \in 1..Min(Len(predictions), Len(frames_)) |->
        LET c == Coords(predictions[k], frames_[k])
        IN  [face |-> Crop(frames_[k], c[1], c[2], c[3], c[4]), coords |-> c]]

\* ------------------------------------------------------- _generate_batches
\* An array that holds a frame: its pixels, and the frame of the list whose
\* memory it shares (0 when it shares none).  This one shares the memory of
\* frames[idx].
frame_to_save_Shared(frames_, idx) == [px |-> frames_[idx], of |-> idx]

\* Line 432: frames[idx].copy() (idx is 1-based here).
frame_to_save(frames_, idx) == [px |-> frames_[idx], of |-> 0]

\* The mask applied along the first axis (img_masked[img_size // 2:] = 0).
MaskBatch_FirstAxis(img_batch, size) ==
    [e \in 1..Len(img_batch) |->
        [r \in 1..Height(img_batch[e]) |->
            [c \in 1..Width(img_batch[e]) |->
                IF e - 1 >= size \div 2 THEN 0 ELSE img_batch[e][r][c]]]]

\* Lines 448-449 and 465-466: img_masked = img_batch.copy();
\* img_masked[:, img_size // 2:] = 0.
MaskBatch(img_batch, size) ==
    [e \in 1..Len(img_batch) |->
        [r \in 1..Height(img_batch[e]) |->
            [c \in 1..Width(img_batch[e]) |->
                IF r - 1 >= size \div 2 THEN 0 ELSE img_batch[e][r][c]]]]

\* Lines 451 and 468: np.concatenate((img_masked, img_batch), axis=3) / 255.0.
\* A pixel of the result is <<channels 0-2, channels 3-5>>, and a value v / 255.0
\* is held as <<v, 255>>.
Concatenate255(img_masked, img_batch) ==
    [e \in 1..Len(img_batch) |->
        [r \in 1..Height(img_batch[e]) |->
            [c \in 1..Width(img_batch[e]) |->
                << <<img_masked[e][r][c], 255>>, <<img_batch[e][r][c], 255>> >>]]]

\* Line 436 raises for one of the windows from..from+n-1 (0-based).
BatchFails(frames_, dets, size, from, n) ==
    \E i \in from..(from + n - 1) :
        ResizeFails(dets[(i % Len(frames_)) + 1].face, size, size)

\* BuildBatch that takes the last frame for every window past the frames
\* (idx = min(i, len(frames) - 1)).
BuildBatch_HoldsLastFrame(frames_, mels, dets, size, from, n) ==
    LET faces == [k \in 1..n |->
                    Resize(dets[Min(from + k, Len(frames_))].face, size, size)]
    IN  [img_batch |-> Concatenate255(MaskBatch(faces, size), faces),
         mel_batch |-> [k \in 1..n |-> mels[from + k]],
         frame_batch |-> [k \in 1..n |->
                            frame_to_save(frames_, Min(from + k, Len(frames_)))],
         coords_batch |-> [k \in 1..n |-> dets[Min(from + k, Len(frames_))].coords]]

\* BuildBatch that gives every entry the bounding box of the batch's first
\* entry.
BuildBatch_CoordsOfFirst(frames_, mels, dets, size, from, n) ==
    LET faces == [k \in 1..n |->
                    Resize(dets[((from + k - 1) % Len(frames_)) + 1].face, size, size)]
    IN  [img_batch |-> Concatenate255(MaskBatch(faces, size), faces),
         mel_batch |-> [k \in 1..n |-> mels[from + k]],
         frame_batch |-> [k \in 1..n |->
                            frame_to_save(frames_, ((from + k - 1) % Len(frames_)) + 1)],
         coords_batch |-> [k \in 1..n |-> dets[(from % Len(frames_)) + 1].coords]]

\* BuildBatch that takes the window at the frame's index idx instead of the
\* window m of the loop.
BuildBatch_WindowOfFrame(frames_, mels, dets, size, from, n) ==
    LET faces == [k \in 1..n |->
                    Resize(dets[((from + k - 1) % Len(frames_)) + 1].face, size, size)]
    IN  [img_batch |-> Concatenate255(MaskBatch(faces, size), faces),
         mel_batch |-> [k \in 1..n |-> mels[((from + k - 1) % Len(frames_)) + 1]],
         frame_batch |-> [k \in 1..n |->
                            frame_to_save(frames_, ((from + k - 1) % Len(frames_)) + 1)],
         coords_batch |-> [k \in 1..n |->
                            dets[((from + k - 1) % Len(frames_)) + 1].coords]]

\* Lines 428-474: the batch made of the n windows from window `from`
\* (0-based) on.
BuildBatch(frames_, mels, dets, size, from, n) ==
    LET faces == [k \in 1..n |->
                    Resize(dets[((from + k - 1) % Len(frames_)) + 1].face, size, size)]
    IN  [img_batch |-> Concatenate255(MaskBatch(faces, size), faces),
         mel_batch |-> [k \in 1..n |-> mels[from + k]],
         frame_batch |-> [k \in 1..n |->
                            frame_to_save(frames_, ((from + k - 1) % Len(frames_)) + 1)],
         coords_batch |-> [k \in 1..n |->
                            dets[((from + k - 1) % Len(frames_)) + 1].coords]]

\* ------------------------------------------------------ inference and paste
\* model(mel_batch, img_batch) for one entry, times 255 as uint8 (lines
\* 358-361): the network is a pure function of the entry's window and tensor.
Wav2Lip(mel, img) ==
    [r \in 1..Height(img) |->
        [c \in 1..Width(img) |->
            (img[r][c][1][1] + img[r][c][2][1] + 3 * mel[1] + mel[2]) % 256]]

\* Lines 364-366 raise: cv2.resize fails, or the resized prediction does not
\* have the shape of f[y1:y2, x1:x2].
PasteFails(p, f, c) ==
    \/ ResizeFails(p, c[4] - c[3], c[2] - c[1])
    \/ Max(0, SliceBound(c[2], Height(f)) - SliceBound(c[1], Height(f))) # c[2] - c[1]
    \/ Max(0, SliceBound(c[4], Width(f)) - SliceBound(c[3], Width(f))) # c[4] - c[3]

\* Lines 364-366: y1, y2, x1, x2 = c; p = cv2.resize(p, (x2 - x1, y2 - y1));
\* f[y1:y2, x1:x2] = p.
PasteFrame(p, f, c) ==
    LET r0 == SliceBound(c[1], Height(f))
        r1 == SliceBound(c[2], Height(f))
        c0 == SliceBound(c[3], Width(f))
        c1 == SliceBound(c[4], Width(f))
        q == Resize(p, c[4] - c[3], c[2] - c[1])
    IN  [r \in 1..Height(f) |->
            [col \in 1..Width(f) |->
                IF r0 < r /\ r <= r1 /\ c0 < col /\ col <= c1
                THEN q[r - r0][col - c0]
                ELSE f[r][col]]]

\* ------------------------------------------------- _process_video_native
\* The videos, spectrograms and detector answers _process_video_native is
\* run on: small ones in every combination, and the long ones.
RectSeqs ==
    { <<a>> : a \in DetectorAnswers }
        \cup { <<a, b>> : a \in DetectorAnswers \ {NoRect}, b \in DetectorAnswers }
SmallInputs ==
    { [nframes |-> n, h |-> 3, w |-> 2, fps |-> f, mel_len |-> l,
       img_size |-> s, batch_size |-> b, rects |-> r] :
        n \in 0..MaxFrames, f \in {0, 25, 30}, l \in {0, 8, 16, 19, 22},
        s \in {2, 3}, b \in {2, batch_size}, r \in RectSeqs }
\* A 25-fps video of 125 frames with 5 seconds of audio (400 mel steps).
FiveSecondVideo ==
    [nframes |-> 125, h |-> 3, w |-> 2, fps |-> 25, mel_len |-> 400,
     img_size |-> 2, batch_size |-> batch_size, rects |-> << <<0, 0, 2, 2>> >>]
\* A 25-fps video of 250 frames with 3 seconds of audio (240 mel steps).
TenSecondVideo ==
    [nframes |-> 250, h |-> 3, w |-> 2, fps |-> 25, mel_len |-> 240,
     img_size |-> 2, batch_size |-> batch_size, rects |-> << <<0, 1, 1, 2>> >>]
\* A 120-fps video: consecutive frames can have the same start index.
HighSpeedVideo ==
    [nframes |-> 2, h |-> 3, w |-> 2, fps |-> 120, mel_len |-> 19,
     img_size |-> 2, batch_size |-> batch_size, rects |-> << <<0, 0, 2, 2>> >>]
LongInputs ==
    { FiveSecondVideo, TenSecondVideo,
      [nframes |-> 2, h |-> 3, w |-> 2, fps |-> 25, mel_len |-> 432,
       img_size |-> 2, batch_size |-> batch_size,
       rects |-> << <<0, 0, 2, 2>>, <<1, 1, 2, 3>> >>],
      [nframes |-> 1, h |-> 3, w |-> 2, fps |-> 25, mel_len |-> 19,
       img_size |-> img_size, batch_size |-> batch_size,
       rects |-> << <<0, 0, 2, 2>> >>],
      HighSpeedVideo }
Inputs == SmallInputs \cup LongInputs

\* Line 275: fps = video_stream.get(cv2.CAP_PROP_FPS) or 25
Fps == IF inp.fps = 0 THEN DefaultFps ELSE inp.fps

Raise(e) ==
    /\ error' = e
    /\ stage' = "raised"

\* Lines 274-286.
ReadVideoFrames ==
    /\ stage = "read"
    /\ IF inp.nframes = 0
       THEN /\ Raise("ValueError: Could not read frames")
            /\ UNCHANGED full_frames
       ELSE /\ full_frames' = [k \in 1..inp.nframes |-> Frame(k, inp.h, inp.w)]
            /\ stage' = "chunk"
            /\ UNCHANGED error
    /\ UNCHANGED <<restVars, shVars, fnVars, runVars, jobVars, inp, mel_chunks, face_det_results, gen_i, batch, pred,
                   zip_k, out>>

\* Lines 311-317, one turn of the loop: i is the number of windows appended
\* so far; the window past the end ends the loop.
CreateMelChunks ==
    /\ stage = "chunk"
    /\ mel_chunks' = Append(mel_chunks, MelWindow(inp.mel_len, Fps, Len(mel_chunks)))
    /\ stage' = IF PastEnd(inp.mel_len, Fps, Len(mel_chunks)) THEN "trim" ELSE "chunk"
    /\ UNCHANGED <<restVars, shVars, fnVars, runVars, jobVars, inp, full_frames, face_det_results, gen_i, batch, pred,
                   zip_k, out, error>>

\* TrimFrames that leaves full_frames as read.
TrimFrames_NoTrim ==
    /\ stage = "trim"
    /\ stage' = "detect"
    /\ UNCHANGED <<restVars, shVars, fnVars, runVars, jobVars, inp, full_frames, mel_chunks, face_det_results, gen_i,
                   batch, pred, zip_k, out, error>>

\* Line 322: full_frames = full_frames[:len(mel_chunks)]
TrimFrames ==
    /\ stage = "trim"
    /\ full_frames' = SubSeq(full_frames, 1, Min(Len(full_frames), Len(mel_chunks)))
    /\ stage' = "detect"
    /\ UNCHANGED <<restVars, shVars, fnVars, runVars, jobVars, inp, mel_chunks, face_det_results, gen_i, batch, pred,
                   zip_k, out, error>>

\* Line 331 and _detect_faces, lines 385-414.
_detect_faces ==
    /\ stage = "detect"
    /\ LET predictions == Predictions(Len(full_frames), inp.rects, 0)
       IN  IF FaceNotDetected(predictions, full_frames)
           THEN /\ Raise("ValueError: Face not detected in frame")
                /\ UNCHANGED face_det_results
           ELSE /\ face_det_results' = DetectedFaces(predictions, full_frames)
                /\ stage' = "batches"
                /\ UNCHANGED error
    /\ UNCHANGED <<restVars, shVars, fnVars, runVars, jobVars, inp, full_frames, mel_chunks, gen_i, batch, pred, zip_k,
                   out>>

\* _generate_batches without the remainder of lines 461-474: entries that do
\* not fill a batch are not yielded.
_generate_batches_DropsRemainder ==
    /\ stage = "batches"
    /\ LET n == IF Len(mel_chunks) - gen_i >= inp.batch_size THEN inp.batch_size ELSE 0
       IN  IF n <= 0
           THEN /\ stage' = "release"
                /\ UNCHANGED <<gen_i, batch, error>>
           ELSE IF BatchFails(full_frames, face_det_results, inp.img_size, gen_i, n)
           THEN /\ Raise("cv2.error: resize failed")
                /\ UNCHANGED <<gen_i, batch>>
           ELSE /\ batch' = BuildBatch(full_frames, mel_chunks, face_det_results,
                                        inp.img_size, gen_i, n)
                /\ gen_i' = gen_i + n
                /\ stage' = "model"
                /\ UNCHANGED error
    /\ UNCHANGED <<restVars, shVars, fnVars, runVars, jobVars, inp, full_frames, mel_chunks, face_det_results, pred,
                   zip_k, out>>

\* _generate_batches that iterates over the frames instead of the windows.
_generate_batches_OverFrames ==
    /\ stage = "batches"
    /\ LET n == Min(inp.batch_size, Len(full_frames) - gen_i)
       IN  IF n <= 0
           THEN /\ stage' = "release"
                /\ UNCHANGED <<gen_i, batch, error>>
           ELSE IF BatchFails(full_frames, face_det_results, inp.img_size, gen_i, n)
           THEN /\ Raise("cv2.error: resize failed")
                /\ UNCHANGED <<gen_i, batch>>
           ELSE /\ batch' = BuildBatch(full_frames, mel_chunks, face_det_results,
                                        inp.img_size, gen_i, n)
                /\ gen_i' = gen_i + n
                /\ stage' = "model"
                /\ UNCHANGED error
    /\ UNCHANGED <<restVars, shVars, fnVars, runVars, jobVars, inp, full_frames, mel_chunks, face_det_results, pred,
                   zip_k, out>>

\* The for loop of line 346 asks _generate_batches (lines 416-474) for its
\* next batch: the next batch_size windows, or the remaining ones; when no
\* window remains the generator is exhausted and the loop ends.
_generate_batches ==
    /\ stage = "batches"
    /\ LET n == Min(inp.batch_size, Len(mel_chunks) - gen_i)
       IN  IF n <= 0
           THEN /\ stage' = "release"
                /\ UNCHANGED <<gen_i, batch, error>>
           ELSE IF BatchFails(full_frames, face_det_results, inp.img_size, gen_i, n)
           THEN /\ Raise("cv2.error: resize failed")
                /\ UNCHANGED <<gen_i, batch>>
           ELSE /\ batch' = BuildBatch(full_frames, mel_chunks, face_det_results,
                                        inp.img_size, gen_i, n)
                /\ gen_i' = gen_i + n
                /\ stage' = "model"
                /\ UNCHANGED error
    /\ UNCHANGED <<restVars, shVars, fnVars, runVars, jobVars, inp, full_frames, mel_chunks, face_det_results, pred,
                   zip_k, out>>

\* Lines 351-361: the model is run on the batch, or raises.
RunModel ==
    /\ stage = "model"
    /\ \E ok \in BOOLEAN :
          IF ok
          THEN /\ pred' = [k \in 1..Len(batch.img_batch) |->
                              Wav2Lip(batch.mel_batch[k], batch.img_batch[k])]
               /\ zip_k' = 0
               /\ stage' = "paste"
               /\ UNCHANGED error
          ELSE /\ Raise("RuntimeError: inference failed")
               /\ UNCHANGED <<pred, zip_k>>
    /\ UNCHANGED <<restVars, shVars, fnVars, runVars, jobVars, inp, full_frames, mel_chunks, face_det_results, gen_i,
                   batch, out>>

\* Lines 363-367, one turn of the loop over zip(pred, frame_batch,
\* coords_batch): the prediction is pasted into f and f is written.
PasteAndWrite ==
    /\ stage = "paste"
    /\ LET k == zip_k + 1
           f == batch.frame_batch[k]
           px == IF f.of = 0 THEN f.px ELSE full_frames[f.of]
           c == batch.coords_batch[k]
       IN  IF PasteFails(pred[k], px, c)
           THEN /\ Raise("cv2.error: resize failed")
                /\ UNCHANGED <<full_frames, zip_k, out>>
           ELSE /\ out' = Append(out, PasteFrame(pred[k], px, c))
                /\ full_frames' = IF f.of = 0 THEN full_frames
                                  ELSE [full_frames EXCEPT
                                            ![f.of] = PasteFrame(pred[k], px, c)]
                /\ zip_k' = k
                /\ stage' = IF k = Len(batch.frame_batch) THEN "batches" ELSE "paste"
                /\ UNCHANGED error
    /\ UNCHANGED <<restVars, shVars, fnVars, runVars, jobVars, inp, mel_chunks, face_det_results, gen_i, batch, pred>>

\* Line 369: out.release()
ReleaseWriter ==
    /\ stage = "release"
    /\ stage' = "done"
    /\ UNCHANGED <<restVars, shVars, fnVars, runVars, jobVars, inp, full_frames, mel_chunks, face_det_results, gen_i,
                   batch, pred, zip_k, out, error>>

\* _process_video_native is given a video, a spectrogram and the detector's
\* answers; the server stands as installed, with no request under way.
InitNative ==
    /\ Installed
    /\ SharedIdle
    /\ ClampIdle
    /\ FirstRun
    /\ RestIdle
    /\ inp \in Inputs
    /\ stage = "read"
    /\ full_frames = <<>>
    /\ mel_chunks = <<>>
    /\ face_det_results = <<>>
    /\ gen_i = 0
    /\ batch = NoBatch
    /\ pred = <<>>
    /\ zip_k = 0
    /\ out = <<>>
    /\ error = ""

NextNative ==
    \/ ReadVideoFrames
    \/ CreateMelChunks
    \/ TrimFrames
    \/ _detect_faces
    \/ _generate_batches
    \/ RunModel
    \/ PasteAndWrite
    \/ ReleaseWriter

SpecNative == InitNative /\ [][NextNative]_vars

\* The loop of lines 311-317 runs in one thread with nothing to wait for:
\* a turn that can be taken is taken.
SpecNativeFair == SpecNative /\ WF_vars(CreateMelChunks)

\* ----------------------------------- one Wav2LipService shared by threads
\* _run_wav2lip_native, lines 177-208, called on one instance by the threads
\* of Jobs.  Python may switch threads between any two of its statements, so
\* the check of line 200, the load and assignment of line 201 and the read
\* of self._model at line 207 are steps of their own.

\* Line 177: a thread calls _run_wav2lip_native.
SharedEnter(j) ==
    /\ tpc[j] = "idle"
    /\ entered < MaxSharedCalls
    /\ entered' = entered + 1
    /\ tpc' = [tpc EXCEPT ![j] = "check"]
    /\ used' = [used EXCEPT ![j] = NoModel]
    /\ UNCHANGED <<restVars, jobVars, natVars, fnVars, runVars, shared_model, loaded>>

\* Line 200: if self._model is None
SharedCheck(j) ==
    /\ tpc[j] = "check"
    /\ tpc' = [tpc EXCEPT ![j] = IF shared_model = NoModel THEN "loading" ELSE "read"]
    /\ UNCHANGED <<restVars, jobVars, natVars, fnVars, runVars, shared_model, used, loaded, entered>>

\* Line 201: self._model = self._load_wav2lip_model(device); the load
\* returns a new model, or raises and the call ends.
SharedLoad(j) ==
    /\ tpc[j] = "loading"
    /\ \E readable \in BOOLEAN :
          IF readable
          THEN /\ loaded' = Append(loaded, Len(loaded) + 1)
               /\ shared_model' = Len(loaded) + 1
               /\ tpc' = [tpc EXCEPT ![j] = "read"]
          ELSE /\ tpc' = [tpc EXCEPT ![j] = "idle"]
               /\ UNCHANGED <<loaded, shared_model>>
    /\ UNCHANGED <<restVars, jobVars, natVars, fnVars, runVars, used, entered>>

\* Lines 205-208: self._model is read and passed to _process_video_native.
SharedRead(j) ==
    /\ tpc[j] = "read"
    /\ used' = [used EXCEPT ![j] = shared_model]
    /\ tpc' = [tpc EXCEPT ![j] = "process"]
    /\ UNCHANGED <<restVars, jobVars, natVars, fnVars, runVars, shared_model, loaded, entered>>

\* _process_video_native returns or raises; the call ends.
SharedReturn(j) ==
    /\ tpc[j] = "process"
    /\ tpc' = [tpc EXCEPT ![j] = "idle"]
    /\ UNCHANGED <<restVars, jobVars, natVars, fnVars, runVars, shared_model, used, loaded, entered>>

InitShared == Installed /\ NatIdle /\ SharedIdle /\ ClampIdle /\ FirstRun /\ RestIdle

NextShared ==
    \E j \in Jobs :
        \/ SharedEnter(j)
        \/ SharedCheck(j)
        \/ SharedLoad(j)
        \/ SharedRead(j)
        \/ SharedReturn(j)

SpecShared == InitShared /\ [][NextShared]_vars

\* ------------------------------- a second run on the same video
\* A window of other audio than w: windows stand for their content by the
\* steps they cover.
OtherAudio(w) == <<w[1] + 1, w[2] + 1>>

\* _process_video_native is called again with the same face_path and an
\* audio file that gives other audio in one window: lines 274-286 read the
\* same frames and line 331 detects the same faces, lines 300-317 give the
\* same windows but one, and the loop of line 346 starts anew.
Rerun ==
    /\ stage = "done"
    /\ run = 1
    /\ run' = 2
    /\ first_out' = out
    /\ \E k \in 1..Len(mel_chunks) :
          /\ changed' = k
          /\ mel_chunks' = [mel_chunks EXCEPT ![k] = OtherAudio(@)]
    /\ gen_i' = 0
    /\ batch' = NoBatch
    /\ pred' = <<>>
    /\ zip_k' = 0
    /\ out' = <<>>
    /\ stage' = "batches"
    /\ UNCHANGED <<restVars, jobVars, shVars, fnVars, inp, full_frames, face_det_results, error>>

InitRerun == InitNative /\ inp \in SmallInputs

NextRerun == NextNative \/ Rerun

SpecRerun == InitRerun /\ [][NextRerun]_vars

\* ------------------------------------ the bounding box of one rectangle
\* Lines 407-410 on their own: a rectangle <<x1, y1, x2, y2>> with
\* x1 <= x2 and y1 <= y2, a pad configuration and an image shape.
ZeroPads == <<0, 0, 0, 0>>
PadConfigs == {ZeroPads, pads, <<1, 0, 2, 1>>}
Rects ==
    { <<x1, y1, x2, y2>> : x1 \in -1..MaxCoord, y1 \in -1..MaxCoord,
                           x2 \in -1..MaxCoord, y2 \in -1..MaxCoord }
ClampInputs ==
    { [rect |-> r, pads |-> p, h |-> s[1], w |-> s[2]] :
        r \in {q \in Rects : q[1] <= q[3] /\ q[2] <= q[4]},
        p \in PadConfigs, s \in {<<3, 2>>, <<2, 4>>} }
\* (y1, y2, x1, x2) read as a rectangle <<x1, y1, x2, y2>>.
AsRect(c) == <<c[3], c[1], c[4], c[2]>>

\* Lines 407-410 for the rectangle of clamp_in.
ClampBox ==
    /\ clamp_in # NoClampInput
    /\ clamp_out = <<>>
    /\ clamp_out' = PadAndClamp(clamp_in.rect, clamp_in.pads, clamp_in.h, clamp_in.w)
    /\ UNCHANGED <<restVars, jobVars, natVars, shVars, runVars, clamp_in, clamp_twice>>

\* Lines 407-410 once more, for the box just computed and without padding.
ClampAgain ==
    /\ clamp_out # <<>>
    /\ clamp_twice = <<>>
    /\ clamp_twice' = PadAndClamp(AsRect(clamp_out), ZeroPads, clamp_in.h, clamp_in.w)
    /\ UNCHANGED <<restVars, jobVars, natVars, shVars, runVars, clamp_in, clamp_out>>

InitClamp ==
    /\ Installed
    /\ NatIdle
    /\ SharedIdle
    /\ FirstRun
    /\ RestIdle
    /\ clamp_in \in ClampInputs
    /\ clamp_out = <<>>
    /\ clamp_twice = <<>>

NextClamp == ClampBox \/ ClampAgain

SpecClamp == InitClamp /\ [][NextClamp]_vars

\* --------------------------------------- the parameter names of a checkpoint
\* _load_wav2lip_model, lines 234-238.  A name is the sequence of its
\* characters.
ModulePrefix == <<"m", "o", "d", "u", "l", "e", ".">>

\* Python's s.replace(old, new) for a non-empty old: every occurrence of old,
\* found from the left without overlap, is replaced by new.
RECURSIVE Replace(_, _, _)
Replace(str, old, new) ==
    IF Len(str) < Len(old) THEN str
    ELSE IF SubSeq(str, 1, Len(old)) = old
    THEN new \o Replace(SubSeq(str, Len(old) + 1, Len(str)), old, new)
    ELSE <<Head(str)>> \o Replace(Tail(str), old, new)

\* d[k] = v for a dict held as its items in insertion order.
DictSet(d, k, v) ==
    IF \E e \in 1..Len(d) : d[e][1] = k
    THEN [e \in 1..Len(d) |-> IF d[e][1] = k THEN <<k, v>> ELSE d[e]]
    ELSE Append(d, <<k, v>>)

\* Parameter names: w, module.w, e.w, module.e.w, e.module.w,
\* module.module.w, smodule.w and module.
ParamNames ==
    { <<"w">>,
      ModulePrefix \o <<"w">>,
      <<"e", ".", "w">>,
      ModulePrefix \o <<"e", ".", "w">>,
      <<"e", ".">> \o ModulePrefix \o <<"w">>,
      ModulePrefix \o ModulePrefix \o <<"w">>,
      <<"s">> \o ModulePrefix \o <<"w">>,
      <<"m", "o", "d", "u", "l", "e">> }
\* The state dicts of checkpoints: up to MaxKeys parameters of different
\* names, the value of the i-th being tensor i.
RECURSIVE StateDicts(_)
StateDicts(n) ==
    IF n = 0 THEN {<<>>}
    ELSE LET shorter == StateDicts(n - 1)
         IN  shorter \cup
             { Append(d, <<k, Len(d) + 1>>) :
                 d \in {x \in shorter : Len(x) = n - 1}, k \in ParamNames }
Checkpoints ==
    { d \in StateDicts(MaxKeys) :
        /\ Len(d) >= 1
        /\ \A a, b \in 1..Len(d) : a # b => d[a][1] # d[b][1] }

\* Lines 237-238, one turn of the loop:
\* new_state_dict[k.replace('module.', '')] = v
StripPrefix ==
    /\ ck_i < Len(state_dict)
    /\ LET k == state_dict[ck_i + 1][1]
           v == state_dict[ck_i + 1][2]
       IN  new_state_dict' = DictSet(new_state_dict, Replace(k, ModulePrefix, <<>>), v)
    /\ ck_i' = ck_i + 1
    /\ UNCHANGED <<wavVars, courseVars, authVars, state_dict>>

\* Line 235: state_dict = checkpoint["state_dict"]; new_state_dict = {}
InitCheckpoint ==
    /\ Installed
    /\ NatIdle
    /\ SharedIdle
    /\ ClampIdle
    /\ FirstRun
    /\ CourseIdle
    /\ AuthIdle
    /\ state_dict \in Checkpoints
    /\ new_state_dict = <<>>
    /\ ck_i = 0

NextCheckpoint == StripPrefix

SpecCheckpoint == InitCheckpoint /\ [][NextCheckpoint]_vars

\* ------------------------------------------ CourseGenerationService
\* course_generation_service.py on the file of one job id.  A call reads the
\* whole file (get_job), changes its copy and writes the whole file back
\* (_save_job); the threads of Jobs may be switched between these steps.

\* The file while _save_job has opened it for writing and not yet written.
Truncated == [truncated |-> TRUE]
\* A lesson job as _create_lesson_jobs makes it (lines 91-108).
NewLesson == [status |-> "pending", error_message |-> None, retry_count |-> 0]
\* The job's own status, current_step and error_message.
JobLevels ==
    { [status |-> "pending", current_step |-> "queued", error_message |-> None],
      [status |-> "processing", current_step |-> "generating_videos",
       error_message |-> None],
      [status |-> "failed", current_step |-> "generating_videos",
       error_message |-> "render failed"] }
\* The job files a call may find: none (the job id is unknown), or a job
\* created with up to MaxLessons lessons (lines 49-69) that update_job has
\* since moved to one of JobLevels.
JobFiles ==
    {NoFile} \cup
    { [status |-> l.status, current_step |-> l.current_step,
       error_message |-> l.error_message, progress |-> 0,
       lesson_jobs |-> [i \in 1..n |-> NewLesson]] :
        l \in JobLevels, n \in 0..MaxLessons }
\* The updates given to update_lesson_job.
LessonUpdates ==
    { [status |-> "completed"], [status |-> "processing"],
      [status |-> "failed", error_message |-> "tts failed"] }
\* The lesson_index arguments: None, and the integers from -1 to MaxLessons.
LessonIndexes == {<<>>} \cup { <<i>> : i \in -1..MaxLessons }
CourseCalls ==
    { [op |-> "update_lesson_job", lesson_index |-> i, updates |-> u] :
        i \in LessonIndexes \ {<<>>}, u \in LessonUpdates }
    \cup { [op |-> "retry_failed_step", lesson_index |-> i, updates |-> NoUpdates] :
             i \in LessonIndexes }

\* lesson_jobs[lesson_index] of Python, as a position from 1: a negative
\* index counts from the end; 0 when Python raises IndexError.
ListPosition(lesson_index, len) ==
    IF lesson_index >= 0 /\ lesson_index < len THEN lesson_index + 1
    ELSE IF lesson_index < 0 /\ lesson_index >= -len THEN len + lesson_index + 1
    ELSE 0
\* dict.update(updates)
DictUpdate(d, updates) ==
    [f \in DOMAIN d |-> IF f \in DOMAIN updates THEN updates[f] ELSE d[f]]
\* Lines 173-175: int((completed_lessons / total_lessons) * 100) if
\* total_lessons > 0 else 0 (for up to 28 lessons the float product has the
\* integer part of 100 * completed / total).
RECURSIVE CountCompleted(_)
CountCompleted(lesson_jobs) ==
    IF lesson_jobs = <<>> THEN 0
    ELSE (IF Head(lesson_jobs).status = "completed" THEN 1 ELSE 0)
            + CountCompleted(Tail(lesson_jobs))
overall_progress(lesson_jobs) ==
    IF Len(lesson_jobs) > 0
    THEN (CountCompleted(lesson_jobs) * 100) \div Len(lesson_jobs)
    ELSE 0

\* The call of thread w ends, returning or raising.
CourseEnd(w, how) ==
    /\ cret' = [cret EXCEPT ![w] = how]
    /\ cpc' = [cpc EXCEPT ![w] = "idle"]

\* A thread calls update_lesson_job or retry_failed_step.
CourseCall(w) ==
    /\ cpc[w] = "idle"
    /\ ccalls < MaxCourseCalls
    /\ ccalls' = ccalls + 1
    /\ \E c \in CourseCalls : cop' = [cop EXCEPT ![w] = c]
    /\ cbefore' = [cbefore EXCEPT ![w] = job_file]
    /\ cret' = [cret EXCEPT ![w] = "none"]
    /\ cjob' = [cjob EXCEPT ![w] = NoFile]
    /\ cpc' = [cpc EXCEPT ![w] = "get_job"]
    /\ UNCHANGED <<wavVars, ckVars, authVars, job_file>>

\* get_job, lines 114-121, and the test of its result (lines 162-164 and
\* 207-209): no file gives None and ValueError; a file that is being written
\* makes json.load raise.
get_job(w) ==
    /\ cpc[w] = "get_job"
    /\ IF job_file = NoFile
       THEN CourseEnd(w, "ValueError: Job not found") /\ UNCHANGED cjob
       ELSE IF job_file = Truncated
       THEN CourseEnd(w, "JSONDecodeError") /\ UNCHANGED cjob
       ELSE /\ cjob' = [cjob EXCEPT ![w] = job_file]
            /\ cpc' = [cpc EXCEPT ![w] = cop[w].op]
            /\ UNCHANGED cret
    /\ UNCHANGED <<wavVars, ckVars, authVars, job_file, cop, cbefore, ccalls>>

\* update_lesson_job, lines 166-180, up to the open(job_file, 'w') of
\* _save_job (line 240), which empties the file.
update_lesson_job(w) ==
    /\ cpc[w] = "update_lesson_job"
    /\ LET lesson_jobs == cjob[w].lesson_jobs
           p == ListPosition(cop[w].lesson_index[1], Len(lesson_jobs))
           updated == [lesson_jobs EXCEPT ![p] = DictUpdate(@, cop[w].updates)]
       IN  IF cop[w].lesson_index[1] >= Len(lesson_jobs)
           THEN /\ CourseEnd(w, "ValueError: Lesson index out of range")
                /\ UNCHANGED <<cjob, job_file>>
           ELSE IF p = 0
           THEN /\ CourseEnd(w, "IndexError")
                /\ UNCHANGED <<cjob, job_file>>
           ELSE /\ cjob' = [cjob EXCEPT ![w] =
                      [@ EXCEPT !.lesson_jobs = updated,
                                !.progress = overall_progress(updated)]]
                /\ job_file' = Truncated
                /\ cpc' = [cpc EXCEPT ![w] = "dump"]
                /\ UNCHANGED cret
    /\ UNCHANGED <<wavVars, ckVars, authVars, cop, cbefore, ccalls>>

\* retry_failed_step, lines 211-231, up to the open(job_file, 'w') of
\* _save_job.
retry_failed_step(w) ==
    /\ cpc[w] = "retry_failed_step"
    /\ IF cop[w].lesson_index # <<>>
       THEN LET lesson_jobs == cjob[w].lesson_jobs
                p == ListPosition(cop[w].lesson_index[1], Len(lesson_jobs))
            IN  IF cop[w].lesson_index[1] >= Len(lesson_jobs)
                THEN /\ CourseEnd(w, "ValueError: Lesson index out of range")
                     /\ UNCHANGED <<cjob, job_file>>
                ELSE IF p = 0
                THEN /\ CourseEnd(w, "IndexError")
                     /\ UNCHANGED <<cjob, job_file>>
                ELSE /\ cjob' = [cjob EXCEPT ![w].lesson_jobs[p] =
                           [status |-> "pending", error_message |-> None,
                            retry_count |-> @.retry_count + 1]]
                     /\ job_file' = Truncated
                     /\ cpc' = [cpc EXCEPT ![w] = "dump"]
                     /\ UNCHANGED cret
       ELSE /\ cjob' = [cjob EXCEPT ![w] =
                  [@ EXCEPT !.status = "pending", !.current_step = "queued",
                            !.error_message = None]]
            /\ job_file' = Truncated
            /\ cpc' = [cpc EXCEPT ![w] = "dump"]
            /\ UNCHANGED cret
    /\ UNCHANGED <<wavVars, ckVars, authVars, cop, cbefore, ccalls>>

\* _save_job, line 241: json.dump(job, f), and the return of the call.
_save_job(w) ==
    /\ cpc[w] = "dump"
    /\ job_file' = cjob[w]
    /\ CourseEnd(w, "returned")
    /\ UNCHANGED <<wavVars, ckVars, authVars, cop, cjob, cbefore, ccalls>>

CourseStep(w) ==
    \/ get_job(w)
    \/ update_lesson_job(w)
    \/ retry_failed_step(w)
    \/ _save_job(w)

InitCourse ==
    /\ Installed
    /\ NatIdle
    /\ SharedIdle
    /\ ClampIdle
    /\ FirstRun
    /\ CheckpointIdle
    /\ AuthIdle
    /\ job_file \in JobFiles
    /\ CourseThreadsIdle

\* One call at a time.
NextCourse ==
    \E w \in Jobs :
        \/ (\A v \in Jobs : cpc[v] = "idle") /\ CourseCall(w)
        \/ CourseStep(w)
SpecCourse == InitCourse /\ [][NextCourse]_vars

\* Calls made by several threads at once.
NextCourseConcurrent ==
    \E w \in Jobs :
        \/ CourseCall(w)
        \/ CourseStep(w)
SpecCourseConcurrent == InitCourse /\ [][NextCourseConcurrent]_vars

\* ------------------------------------------------------------ vocabulary
Raised(r) == r \notin {"none", "ok"}
Ended(j) == pc[j] \in {"done", "responded"} /\ outcome[j].kind # "none"
IsVideoJob(j) ==
    avatar_path[j] # NoPath /\ Lower(avatar_path[j][3]) \notin {".jpg", ".jpeg", ".png"}
IsImageJob(j) ==
    avatar_path[j] # NoPath /\ Lower(avatar_path[j][3]) \in {".jpg", ".jpeg", ".png"}
NativePcs ==
    {"native", "load_model", "read_frames", "load_audio", "mel", "detect",
     "infer", "paste", "mux", "cleanup"}
FaceError == "ValueError: Face not detected in frame"
NaNError == "ValueError: Mel spectrogram contains NaN values"
CheckpointError == "FileNotFoundError: Wav2Lip model not found"

\* C1: for a video avatar the strategies are entered in the order native,
\* subprocess, copy, each at most once; the subprocess is started only after
\* native raised, the copy is made only after the subprocess raised, and a
\* strategy that succeeds is the last one entered.
C1_StrategyOrder ==
    \A j \in Jobs :
        IsVideoJob(j) =>
            /\ calls[j] \in {<<>>, <<"native">>, <<"native", "subprocess">>,
                              <<"native", "subprocess", "copy">>}
            /\ Len(calls[j]) >= 2 => Raised(result[j].native)
            /\ Len(calls[j]) >= 3 => Raised(result[j].subprocess)
            /\ result[j].native = "ok" => calls[j] = <<"native">>
            /\ result[j].subprocess = "ok" => Len(calls[j]) = 2

\* C2: with the checkpoint file absent the job fails with the precondition
\* error delivered to the caller of generate: no strategy is entered (no
\* subprocess, no copy), no output path is returned, no frames are read.
C2_CheckpointAbsentIsFatal ==
    \A j \in Jobs :
        result[j].precondition = CheckpointError =>
            /\ calls[j] = <<>>
            /\ frames[j] = 0 /\ chunks[j] = 0
            /\ Ended(j) => /\ outcome[j].kind = "raised"
                           /\ outcome[j].error = CheckpointError

\* C3: when the detector finds no face in a frame of the trimmed sequence,
\* generate raises to its caller, neither the subprocess nor the copy is
\* run, and no file is at the output path afterwards.
C3_NoFaceIsFatal ==
    \A j \in Jobs :
        result[j].native = FaceError =>
            /\ calls[j] = <<"native">>
            /\ Ended(j) => /\ outcome[j].kind = "raised"
                           /\ fs[output_path[j]] = Absent

\* C4: when the spectrogram holds a NaN the job aborts before any inference:
\* the subprocess is never started, no copy is made, and the caller of
\* generate receives the error.
C4_NaNIsFatal ==
    \A j \in Jobs :
        result[j].native = NaNError =>
            /\ calls[j] = <<"native">>
            /\ written[j] = 0
            /\ Ended(j) => /\ outcome[j].kind = "raised"
                           /\ outcome[j].error = NaNError

\* The inputs of C5: the audio file is missing, or no avatar file is found
\* for the avatar id.
AudioNotFound == "FileNotFoundError: Audio file not found"
AvatarNotFound ==
    {"FileNotFoundError: No avatar files found", "FileNotFoundError: Avatar not found"}
MatchesSuffix(p, ext) ==
    IF case_insensitive THEN Lower(p[3]) = ext ELSE p[3] = ext
NoAvatarFor(id) ==
    \A p \in AvatarPaths :
        fs[p] # Absent =>
            IF id = "default"
            THEN \A ext \in {".mp4", ".jpg", ".png"} : ~MatchesSuffix(p, ext)
            ELSE \A ext \in {".mp4", ".jpg", ".jpeg", ".png"} :
                    ~(p[2] = id /\ MatchesSuffix(p, ext))
MissingInput(j) ==
    /\ pc[j] \notin {"idle", "generate"}
    /\ audio_path[j] # NoPath
    /\ fs[audio_path[j]] = Absent \/ NoAvatarFor(avatar_id[j])
C5_Fatal ==
    \A j \in Jobs :
        MissingInput(j) =>
            /\ calls[j] = <<>>
            /\ result[j] = NoResult
            /\ pc[j] \in {"get_avatar", "done", "responded"}
            /\ Ended(j) =>
                  /\ outcome[j].kind = "raised"
                  /\ outcome[j].error \in {AudioNotFound} \cup AvatarNotFound
                  /\ fs[audio_path[j]] = Absent <=> outcome[j].error = AudioNotFound
C5_NoWrite ==
    \A j \in Jobs :
        MissingInput(j) =>
            \A id \in JobIds : fs'[OutputPath(id)] = fs[OutputPath(id)]
\* C5: a job whose audio file does not exist, or for whose avatar id no
\* avatar file is found, ends with FileNotFoundError raised to the caller of
\* generate; it enters no strategy (native, subprocess, copy) and no step
\* taken while it runs changes a file at an output path.
C5_MissingInputsAreFatal == []C5_Fatal /\ [][C5_NoWrite]_vars
C5_Witness ==
    \E j \in Jobs :
        /\ Ended(j)
        /\ avatar_id[j] = "default"
        /\ fs[audio_path[j]] # Absent
        /\ fs[AvatarFile("a", ".jpeg")] # Absent
        /\ outcome[j].error \in AvatarNotFound

Range(q) == { q[k] : k \in 1..Len(q) }

\* C6: a job whose avatar is a still image (.jpg, .jpeg, .png) never enters
\* the native strategy; the subprocess is the only inference strategy it
\* runs, and when that raises the job goes straight to the copy.
C6_ImageNeverNative ==
    \A j \in Jobs :
        IsImageJob(j) =>
            /\ pc[j] \notin NativePcs
            /\ "native" \notin Range(calls[j])
            /\ result[j].native = "none"
            /\ frames[j] = 0 /\ chunks[j] = 0 /\ written[j] = 0
            /\ Raised(result[j].subprocess) =>
                  /\ pc[j] \in {"except", "done", "responded"}
                  /\ calls[j] \in {<<"subprocess">>, <<"subprocess", "copy">>}
C6_Witness ==
    \E j \in Jobs :
        /\ IsImageJob(j)
        /\ avatar_path[j][3] = ".jpeg"
        /\ Raised(result[j].subprocess)
        /\ result[j].copy = "ok"
        /\ Ended(j)

\* C7: once the native strategy has raised (at any step, also after frames
\* were written), the subprocess strategy is entered next, with the face,
\* audio and output paths generate computed; when it succeeds generate
\* returns the output path and a file is at that path.
C7_NativeFailureFallsBack ==
    \A j \in Jobs :
        Raised(result[j].native) =>
            /\ pc[j] \notin NativePcs
            /\ pc[j] # "subprocess" =>
                  /\ Len(calls[j]) >= 2
                  /\ calls[j][1] = "native" /\ calls[j][2] = "subprocess"
            /\ proc[j].state # "none" =>
                  /\ proc[j].face = avatar_path[j]
                  /\ proc[j].audio = audio_path[j]
                  /\ proc[j].outfile = OutputPath(job_id[j])
            /\ result[j].subprocess = "ok" =>
                  /\ Ended(j)
                  /\ calls[j] = <<"native", "subprocess">>
                  /\ outcome[j].kind = "returned"
                  /\ outcome[j].path = OutputPath(job_id[j])
                  /\ fs[outcome[j].path] # Absent
                  /\ pc[j] = "responded" =>
                        /\ response[j].status = 200
                        /\ response[j].video_path = OutputPath(job_id[j])
C7_Witness ==
    \E j \in Jobs :
        /\ written[j] >= 1
        /\ Raised(result[j].native)
        /\ result[j].subprocess = "ok"
        /\ pc[j] = "responded"

\* C8 as claimed: the subprocess strategy raises exactly when the process
\* exited non-zero, or exited zero with no file at the output path.
C8_FailsExactlyOnExit ==
    \A j \in Jobs :
        Raised(result[j].subprocess) <=>
            /\ proc[j].state = "exited"
            /\ proc[j].returncode # 0 \/ ~proc[j].output_exists

\* C8 as amended: the subprocess strategy raises without starting a process
\* when inference.py is missing; once the process has exited it raises
\* exactly when the exit was non-zero, or zero with no file at the output
\* path; after it raised the copy is attempted, and when the copy succeeds
\* the caller gets the output path and no error.
C8_SubprocessFailure ==
    \A j \in Jobs :
        /\ "subprocess" \in Range(calls[j]) =>
              /\ proc[j].state = "none" =>
                    fs[inference_script] = Absent /\ Raised(result[j].subprocess)
              /\ proc[j].state = "running" =>
                    fs[inference_script] # Absent /\ result[j].subprocess = "none"
              /\ proc[j].state = "exited" =>
                    /\ fs[inference_script] # Absent
                    /\ result[j].subprocess # "none"
                    /\ Raised(result[j].subprocess) <=>
                          (proc[j].returncode # 0 \/ ~proc[j].output_exists)
        /\ Raised(result[j].subprocess) =>
              /\ pc[j] \in {"except", "done", "responded"}
              /\ pc[j] # "except" => calls[j][Len(calls[j])] = "copy"
              /\ result[j].copy = "ok" =>
                    /\ outcome[j].kind = "returned"
                    /\ outcome[j].error = ""
                    /\ pc[j] = "responded" =>
                          response[j].status = 200 /\ response[j].error = ""
C8_Witness ==
    \E j \in Jobs :
        /\ proc[j].state = "exited"
        /\ proc[j].returncode = 0
        /\ ~proc[j].output_exists
        /\ Raised(result[j].subprocess)
        /\ result[j].copy = "ok"
        /\ pc[j] = "responded"

\* The two parts of C9: the state after a failed copy, and the steps after it.
C9_Ended ==
    \A j \in Jobs :
        Raised(result[j].copy) =>
            /\ Ended(j)
            /\ outcome[j].kind = "raised"
            /\ outcome[j].error = result[j].copy
            /\ calls[j][Len(calls[j])] = "copy"
            /\ Cardinality({k \in 1..Len(calls[j]) : calls[j][k] = "copy"}) = 1
            /\ pc[j] = "responded" =>
                  response[j].status = 500 /\ response[j].error = result[j].copy
C9_NoRetry ==
    \A j \in Jobs :
        (Raised(result[j].copy) /\ pc'[j] # "idle") =>
            /\ calls'[j] = calls[j]
            /\ result'[j] = result[j]
            /\ fs' = fs
\* C9: when the copy fails its error is what generate raises to the caller:
\* the job has ended, the copy was tried once, and no strategy is entered
\* and no file written after it.
C9_CopyFailureIsTerminal == []C9_Ended /\ [][C9_NoRetry]_vars
C9_Witness ==
    \E j \in Jobs :
        /\ Raised(result[j].native)
        /\ Raised(result[j].subprocess)
        /\ Raised(result[j].copy)
        /\ pc[j] = "responded"

\* The two parts of C10: the outcome of an ended job, and its permanence.
C10_One ==
    \A j \in Jobs :
        /\ outcome[j].kind \in {"none", "returned", "raised"}
        /\ pc[j] = "done" => outcome[j].kind # "none"
        /\ outcome[j].kind # "none" => pc[j] \in {"done", "responded"}
        /\ outcome[j].kind = "returned" =>
              outcome[j].path = OutputPath(job_id[j]) /\ outcome[j].error = ""
        /\ outcome[j].kind = "raised" =>
              outcome[j].path = NoPath /\ outcome[j].error # ""
        /\ (result[j].subprocess = "ok" \/ result[j].copy = "ok") =>
              outcome[j].kind = "returned"
        /\ (pc[j] = "responded" /\ response[j].status # 400) =>
              \/ /\ outcome[j].kind = "returned"
                 /\ response[j] = [status |-> 200, video_path |-> outcome[j].path,
                                   error |-> ""]
              \/ /\ outcome[j].kind = "raised"
                 /\ response[j] = [status |-> 500, video_path |-> NoPath,
                                   error |-> outcome[j].error]
C10_Once ==
    \A j \in Jobs :
        (outcome[j].kind # "none" /\ pc'[j] # "idle") => outcome'[j] = outcome[j]
\* C10: a generate that has ended has exactly one outcome, the output path or
\* one error, which never changes afterwards; when a later strategy succeeded
\* after the native or the subprocess strategy raised, the outcome is the
\* output path and carries no error.
C10_SingleOutcome == []C10_One /\ [][C10_Once]_vars
C10_Witness ==
    \E j \in Jobs :
        /\ Raised(result[j].native)
        /\ Raised(result[j].subprocess)
        /\ result[j].copy = "ok"
        /\ pc[j] = "responded"
        /\ response[j].status = 200

C12_WritesMinOfWindowsAndFrames ==
    /\ Len(out) <= Len(mel_chunks)
    /\ stage = "done" => Len(out) = Min(Len(mel_chunks), inp.nframes)

\* C12, amended: a native run that completes on F >= 1 frames and A audio
\* windows has written exactly A frames, which is min(A, F) when A <= F and
\* more than F when A > F; no run has written more than A.
C12_WritesOneFramePerWindow ==
    /\ Len(out) <= Len(mel_chunks)
    /\ stage = "done" =>
          /\ inp.nframes >= 1
          /\ Len(out) = Len(mel_chunks)
          /\ Len(mel_chunks) <= inp.nframes =>
                Len(out) = Min(Len(mel_chunks), inp.nframes)
          /\ Len(mel_chunks) > inp.nframes => Len(out) > inp.nframes
C12_Witness ==
    /\ stage = "done"
    /\ inp.nframes = 2
    /\ Len(mel_chunks) = 4
    /\ Len(out) = 4

\* C13 as stated: the 125-frame, 25-fps video with 400 mel steps of audio
\* yields exactly 125 output frames.
C13_FiveSecondsGive125Frames ==
    (inp = FiveSecondVideo /\ stage = "done") => Len(out) = 125

\* C13, amended: the 125-frame, 25-fps video with 400 mel steps of audio
\* yields exactly 122 output frames: the windows starting at floor(3.2 i) for
\* i = 0..120 and the window made of the last 16 steps.
C13_FiveSecondsGive122Frames ==
    (inp = FiveSecondVideo /\ stage = "done") =>
        /\ Len(out) = 122
        /\ Len(mel_chunks) = 122
        /\ mel_chunks[121] = <<384, 400>>
        /\ mel_chunks[122] = <<384, 400>>
C13_Witness ==
    /\ inp = FiveSecondVideo
    /\ stage = "done"
    /\ Len(full_frames) < inp.nframes

\* C14: when the video has more frames than the audio yields windows, a run
\* that completes has written as many frames as there are windows and keeps
\* that many source frames, every window being kept; for 250 frames and 240
\* mel steps at 25 fps that number is at most 75 and is not 250.
C14_VideoTruncatedToAudio ==
    (stage = "done" /\ inp.nframes > Len(mel_chunks)) =>
        /\ Len(out) = Len(mel_chunks)
        /\ Len(full_frames) = Len(mel_chunks)
        /\ \A i \in 1..Len(mel_chunks) :
              mel_chunks[i] = MelWindow(inp.mel_len, Fps, i - 1)
        /\ inp = TenSecondVideo => (Len(out) <= 75 /\ Len(out) # 250)
C14_Witness ==
    /\ inp = TenSecondVideo
    /\ stage = "done"
    /\ Len(out) = 72

\* What the claims about batches compare with: source frame f as read, its
\* bounding box, and its face as the tensor holds it.
SourceFrame(f) == Frame(f, inp.h, inp.w)
SourceCoords(f) == Coords(RectOf(inp.rects, f), SourceFrame(f))
SourceFace(f) ==
    Resize(Crop(SourceFrame(f), SourceCoords(f)[1], SourceCoords(f)[2],
                SourceCoords(f)[3], SourceCoords(f)[4]),
           inp.img_size, inp.img_size)
\* The entry at position pos of the batch carries source frame f, the crop
\* and bounding box of frame f, and audio window k (both 1-based).
Carries(pos, k, f) ==
    /\ batch.frame_batch[pos].px = SourceFrame(f)
    /\ batch.coords_batch[pos] = SourceCoords(f)
    /\ LET face == SourceFace(f)
           tensor == batch.img_batch[pos]
       IN  \A r \in 1..inp.img_size, c \in 1..inp.img_size :
              tensor[r][c][2] = <<face[r][c], 255>>
    /\ batch.mel_batch[pos] = MelWindow(inp.mel_len, Fps, k - 1)
\* The number, counted over all batches, of the entry at position pos of the
\* batch yielded last.
Overall(pos) == gen_i - Len(batch.frame_batch) + pos
\* The frame the code takes for window k: frames[(k - 1) % len(frames)].
Reused(k) == ((k - 1) % Len(full_frames)) + 1
\* pred is the prediction for the batch yielded last.
Predicted ==
    \/ stage \in {"paste", "batches", "release", "done"}
    \/ stage = "raised" /\ error # "RuntimeError: inference failed"
\* The frames written for the batch yielded last are, in the order of the
\* batch, the frames composed for its entries, and the frame of the k-th
\* entry overall is the k-th frame written.
WrittenInOrder ==
    Predicted =>
        /\ Len(out) = Overall(zip_k)
        /\ \A p \in 1..zip_k :
              out[Overall(p)] = PasteFrame(pred[p], batch.frame_batch[p].px,
                                            batch.coords_batch[p])
\* Writing appends one frame and changes no frame written before.
AppendOnly ==
    \/ out' = out
    \/ Len(out') = Len(out) + 1 /\ SubSeq(out', 1, Len(out)) = out

\* C15 as stated: the k-th entry produced overall carries source frame k,
\* the crop and bounding box of frame k and audio window k, and the frames
\* are written in the order of the entries.
C15_PairedByIndex ==
    /\ \A pos \in 1..Len(batch.frame_batch) :
          Carries(pos, Overall(pos), Overall(pos))
    /\ WrittenInOrder

C15_Paired ==
    /\ \A pos \in 1..Len(batch.frame_batch) :
          /\ Carries(pos, Overall(pos), Reused(Overall(pos)))
          /\ Overall(pos) <= Len(full_frames) =>
                Carries(pos, Overall(pos), Overall(pos))
    /\ WrittenInOrder
\* C15, amended: the k-th entry produced overall carries audio window k and
\* the source frame, crop and bounding box of index (k - 1) mod F + 1, F
\* being the number of frames kept (frame k itself whenever k <= F); the
\* frames are written in the order of the entries, each write appending one
\* frame and leaving the frames written before as they are.
C15_PairedByIndexModuloFrames == []C15_Paired /\ [][AppendOnly]_vars
C15_Witness ==
    /\ stage = "done"
    /\ Len(full_frames) = 2
    /\ Len(out) = 4
    /\ inp.batch_size = 2
    /\ inp.rects[1] # inp.rects[Len(inp.rects)]

\* C16: in every batch yielded, every entry's masked face (channels 0-2) is
\* exactly zero in every row at or below img_size / 2 (row 48 of 96, rows
\* counted from 0), and its unmasked copy (channels 3-5) is the resized crop
\* of the entry's frame.
C16_LowerHalfMasked ==
    \A pos \in 1..Len(batch.img_batch) :
        LET tensor == batch.img_batch[pos]
            face == SourceFace(Reused(Overall(pos)))
        IN  /\ Len(tensor) = inp.img_size
            /\ \A r \in 1..inp.img_size, c \in 1..inp.img_size :
                  /\ 2 * (r - 1) >= inp.img_size => tensor[r][c][1] = <<0, 255>>
                  /\ tensor[r][c][2] = <<face[r][c], 255>>
            /\ inp.img_size = 96 =>
                  \A r \in 49..96, c \in 1..96 : tensor[r][c][1][1] = 0
\* A short final batch after a full one, with a face that is not black in
\* its lower half.
C16_Witness ==
    /\ stage = "model"
    /\ Len(batch.img_batch) = 1
    /\ gen_i = 3
    /\ inp.batch_size = 2
    /\ inp.img_size = 3
    /\ batch.img_batch[1][3][1][2][1] # 0
    /\ batch.img_batch[1][3][1][1][1] = 0

\* C17: every frame written equals the source frame of its entry outside
\* the bounding box [y1:y2, x1:x2] and the resized prediction inside it, and
\* the frames of full_frames stay as they were read.
C17_PasteKeepsFrame ==
    /\ \A m \in 1..Len(full_frames) : full_frames[m] = SourceFrame(m)
    /\ \A k \in 1..Len(out) :
          LET src == SourceFrame(Reused(k))
              c == SourceCoords(Reused(k))
              written_k == out[k]
          IN  \A r \in 1..inp.h, col \in 1..inp.w :
                 (r <= c[1] \/ r > c[2] \/ col <= c[3] \/ col > c[4]) =>
                     written_k[r][col] = src[r][col]
    /\ Predicted =>
          \A p \in 1..zip_k :
              LET c == batch.coords_batch[p]
                  q == Resize(pred[p], c[4] - c[3], c[2] - c[1])
                  written_p == out[Overall(p)]
              IN  \A r \in (c[1] + 1)..c[2], col \in (c[3] + 1)..c[4] :
                     written_p[r][col] = q[r - c[1]][col - c[3]]
\* A frame was written whose bounding box is smaller than the frame and
\* whose pixels inside the box differ from the source.
C17_Witness ==
    /\ stage = "done"
    /\ Len(out) >= 2
    /\ batch.coords_batch[1] = <<1, 3, 1, 2>>
    /\ out[Overall(1)] # batch.frame_batch[1].px

\* The native strategy of job j has ended, by returning or by raising.
NativeEnded(j) == result[j].native # "none"

\* C18: whenever the native strategy of a job has ended, by returning or by
\* raising, neither the resampled wav nor the intermediate video is on disk.
C18_TempFilesCleanedUp ==
    \A j \in Jobs :
        NativeEnded(j) => fs[temp_wav] = Absent /\ fs[temp_video] = Absent

\* Job j has the intermediate video open or is about to read or delete it.
UsesTempVideo(j) == pc[j] \in {"infer", "paste", "mux", "cleanup"}

\* C19: no two jobs use the intermediate video path at the same time, and
\* the native output of a job holds the frames written by that job.
C19_TempFilesJobScoped ==
    /\ \A j, k \in Jobs : (j # k /\ UsesTempVideo(j)) => ~UsesTempVideo(k)
    /\ \A id \in JobIds :
          fs[OutputPath(id)][1] = "lipsync-native" => fs[OutputPath(id)][2] = id

\* C20: over the requests one process serves, the checkpoint is loaded at
\* most once.
C20_ModelLoadedOnce == loads <= 1

\* C21: on a service shared by concurrent jobs the model is loaded at most
\* once, and jobs that are processing at the same time were handed the same
\* model.
C21_SharedModelLoadedOnce ==
    /\ Len(loaded) <= 1
    /\ \A j, k \in Jobs :
          (tpc[j] = "process" /\ tpc[k] = "process") => used[j] = used[k]

\* C22: when a job ends after a successful copy, the file at its output path
\* has the content of the avatar file, and whenever generate returns, by
\* synthesis or by copy, it returns <job_id>_lipsync.mp4.
C22_PassthroughIsVerbatimCopy ==
    \A j \in Jobs :
        Ended(j) =>
            /\ outcome[j].kind = "returned" => outcome[j].path = OutputPath(job_id[j])
            /\ result[j].copy = "ok" =>
                  /\ outcome[j].kind = "returned"
                  /\ fs[outcome[j].path] = fs[Resolve(avatar_path[j])]
                  /\ fs[outcome[j].path] = <<"data", avatar_path[j][2]>>
\* Native and the subprocess both failed on a video avatar, the subprocess
\* having left a file at the output path, and the copy succeeded.
C22_Witness ==
    \E j \in Jobs :
        /\ Ended(j)
        /\ result[j].copy = "ok"
        /\ Raised(result[j].native)
        /\ Raised(result[j].subprocess)
        /\ proc[j].output_exists

\* C23: every batch yielded has at least one entry and at most batch_size,
\* holds consecutive windows in their order and starts at a multiple of
\* batch_size; a batch of fewer than batch_size entries is the last one; and
\* when the generator is exhausted the sizes of the batches add up to the
\* number of windows, each of which has had its frame written.
C23_BatchesFullExceptLast ==
    /\ batch # NoBatch =>
          LET n == Len(batch.img_batch)
          IN  /\ 1 <= n /\ n <= inp.batch_size
              /\ (gen_i - n) % inp.batch_size = 0
              /\ n < inp.batch_size => gen_i = Len(mel_chunks)
              /\ batch.mel_batch = SubSeq(mel_chunks, gen_i - n + 1, gen_i)
    /\ stage \in {"release", "done"} =>
          /\ gen_i = Len(mel_chunks)
          /\ Len(out) = Len(mel_chunks)
\* Three windows with batch_size 2: a full batch, then a final batch of one
\* entry, and all three frames written.
C23_Witness ==
    /\ stage = "done"
    /\ inp.batch_size = 2
    /\ Len(mel_chunks) = 3
    /\ Len(batch.img_batch) = 1
    /\ Len(out) = 3

\* C24: in every batch yielded the four arrays have the same length, and the
\* entries at one position come from one turn i of the loop: the window of
\* output frame i, and the full frame, the bounding box and the resized crop
\* of the frame taken for i.
C24_ParallelArraysAligned ==
    batch # NoBatch =>
        /\ Len(batch.mel_batch) = Len(batch.img_batch)
        /\ Len(batch.frame_batch) = Len(batch.img_batch)
        /\ Len(batch.coords_batch) = Len(batch.img_batch)
        /\ \A pos \in 1..Len(batch.img_batch) :
              Carries(pos, Overall(pos), Reused(Overall(pos)))
\* A batch of two entries whose frames have different bounding boxes.
C24_Witness ==
    /\ stage = "model"
    /\ Len(batch.img_batch) = 2
    /\ Len(full_frames) = 2
    /\ batch.coords_batch[1] # batch.coords_batch[2]
    /\ batch.frame_batch[1] # batch.frame_batch[2]

\* A rectangle <<x1, y1, x2, y2>> written as a box <<y1, y2, x1, x2>>.
AsCoords(r) == <<r[2], r[4], r[1], r[3]>>
\* The box <<y1, y2, x1, x2>> lies within an image of h rows and w columns.
WithinFrame(c, h, w) ==
    /\ 0 <= c[1] /\ c[1] <= c[2] /\ c[2] <= h
    /\ 0 <= c[3] /\ c[3] <= c[4] /\ c[4] <= w

\* C25: for every rectangle and every pad configuration the box computed
\* satisfies 0 <= y1 <= y2 <= height and 0 <= x1 <= x2 <= width.
C25_BoxWithinFrame ==
    clamp_out # <<>> => WithinFrame(clamp_out, clamp_in.h, clamp_in.w)

\* C26: computed without padding, the box of a rectangle that lies within
\* the image is that rectangle; and computing the box of a computed box
\* again, without padding, gives the same box.
C26_ClampIdempotent ==
    /\ (/\ clamp_out # <<>>
        /\ clamp_in.pads = ZeroPads
        /\ WithinFrame(AsCoords(clamp_in.rect), clamp_in.h, clamp_in.w))
          => clamp_out = AsCoords(clamp_in.rect)
    /\ clamp_twice # <<>> => clamp_twice = clamp_out
\* A rectangle that reaches the lower edge and passes the right edge was
\* cut to the image with padding, and the second computation was made.
C26_Witness ==
    /\ clamp_twice # <<>>
    /\ clamp_in.pads # ZeroPads
    /\ clamp_in.rect[3] > clamp_in.w
    /\ clamp_in.rect[4] = clamp_in.h
    /\ clamp_out[4] = clamp_in.w
    /\ clamp_out[2] = clamp_in.h

\* C27: for every spectrogram of one step or more, shorter than 16 steps or
\* not, and every frame rate, every window of mel_chunks, the last one
\* included, has exactly mel_step_size (16) time steps.
C27_WindowsHave16Steps ==
    inp.mel_len >= 1 =>
        \A k \in 1..Len(mel_chunks) :
            mel_chunks[k][2] - mel_chunks[k][1] = mel_step_size

\* C28: the window of output frame i (0-based) starts at floor(i * 80 / fps)
\* and covers 16 steps as long as that fits the spectrogram; the window of
\* the first i for which it does not fit is made of the final 16 steps, and
\* it is the last window (for every spectrogram of one step or more).
C28_WindowsInFrameOrder ==
    inp.mel_len >= 1 =>
    /\ \A k \in 1..Len(mel_chunks) :
          LET start == ((k - 1) * 80) \div Fps
          IN  IF start + 16 > inp.mel_len
              THEN /\ mel_chunks[k] = <<inp.mel_len - 16, inp.mel_len>>
                   /\ k = Len(mel_chunks)
                   /\ stage # "chunk"
              ELSE mel_chunks[k] = <<start, start + 16>>
    /\ (stage \notin {"idle", "read", "chunk"} /\ error # "ValueError: Could not read frames")
          => /\ Len(mel_chunks) >= 1
             /\ ((Len(mel_chunks) - 1) * 80) \div Fps + 16 > inp.mel_len

\* C29: when a video is processed a second time with audio that differs
\* from the first in one window only, every frame the second run writes,
\* except the frame of that window, equals the frame the first run wrote at
\* the same index, and a second run that ends has written as many frames.
C29_PairingStable ==
    run = 2 =>
        /\ \A i \in 1..Len(out) :
              i # changed => (i <= Len(first_out) /\ out[i] = first_out[i])
        /\ stage = "done" => Len(out) = Len(first_out)
\* Both runs ended, the frame of the changed window is reused for a later
\* window, and the frame written for the changed window differs.
C29_Witness ==
    /\ run = 2
    /\ stage = "done"
    /\ changed <= Len(full_frames)
    /\ Len(out) >= changed + Len(full_frames)
    /\ out[changed] # first_out[changed]

\* C30: whenever generate has returned a path, by the native strategy, the
\* subprocess or the copy, a file exists at that path.
C30_ReturnedPathExists ==
    \A j \in Jobs :
        (Ended(j) /\ outcome[j].kind = "returned") => fs[outcome[j].path] # Absent

\* C31: a native run that completes has written one frame per audio window,
\* and the entry made for window i (0-based) holds the frame of index
\* i mod F, F being the number of frames: with more windows than frames the
\* window after the last frame takes the first frame again, and more than F
\* frames are written.
C31_FramesReusedCyclically ==
    /\ stage = "done" =>
          /\ Len(out) = Len(mel_chunks)
          /\ Len(mel_chunks) > Len(full_frames) => Len(out) > Len(full_frames)
    /\ \A pos \in 1..Len(batch.frame_batch) :
          LET i == gen_i - Len(batch.frame_batch) + pos - 1
              F == Len(full_frames)
          IN  /\ batch.frame_batch[pos].px = full_frames[(i % F) + 1]
              /\ i = F => batch.frame_batch[pos].px = full_frames[1]
              /\ i = F + 1 => batch.frame_batch[pos].px = full_frames[(1 % F) + 1]
\* The second batch of a video of two frames and four windows: the windows
\* past the frames take the two frames again, from the first.
C31_Witness ==
    /\ stage = "model"
    /\ inp.batch_size = 2
    /\ gen_i = 4
    /\ Len(full_frames) = 2
    /\ batch.frame_batch[1].px = full_frames[1]
    /\ batch.frame_batch[2].px = full_frames[2]
    /\ full_frames[1] # full_frames[2]

\* The loop has not gone past the first index whose window passes the end
\* of the spectrogram: the index before the last window's still fitted.
C32_Bounded ==
    /\ Len(mel_chunks) >= 2 =>
          ((Len(mel_chunks) - 2) * 80) \div Fps + 16 <= inp.mel_len
    /\ (stage \notin {"idle", "read", "chunk"} /\ error # "ValueError: Could not read frames")
          => /\ Len(mel_chunks) >= 1
             /\ mel_chunks[Len(mel_chunks)][2] = inp.mel_len
             /\ mel_chunks[Len(mel_chunks)][1] >= inp.mel_len - 16
             /\ mel_chunks[Len(mel_chunks)][1] <= inp.mel_len
             /\ ((Len(mel_chunks) - 1) * 80) \div Fps + 16 > inp.mel_len
\* C32: for every spectrogram length and frame rate the chunk loop ends,
\* after a number of turns bounded by the length and the rate, with at least
\* one window, the last of which is mel[:, len - 16:], the tail of the
\* spectrogram.
C32_ChunkLoopTerminates == []C32_Bounded /\ ((stage = "chunk") ~> (stage = "trim"))
\* The loop has ended on a 120-fps video, where frames 0 and 1 start at the
\* same step, after seven turns.
C32_Witness ==
    /\ stage = "trim"
    /\ inp = HighSpeedVideo
    /\ Len(mel_chunks) = 7
    /\ mel_chunks[1] = mel_chunks[2]

\* _detect_faces has returned.
Detected ==
    \/ stage \in {"batches", "model", "paste", "release", "done"}
    \/ stage = "raised" /\ error \notin {"ValueError: Could not read frames",
                                          "ValueError: Face not detected in frame"}
\* C33: when _detect_faces has returned, its list has one entry per frame,
\* the k-th being the crop and the bounding box of frame k for the detector's
\* answer to frame k, also with more than 16 frames; every entry the batches
\* hold comes from an entry of that list; and when it raised there is no
\* list.
C33_OneResultPerFrame ==
    /\ Detected =>
          /\ Len(face_det_results) = Len(full_frames)
          /\ \A k \in 1..Len(full_frames) :
                LET c == face_det_results[k].coords
                IN  /\ c = Coords(RectOf(inp.rects, k), full_frames[k])
                    /\ face_det_results[k].face =
                          Crop(full_frames[k], c[1], c[2], c[3], c[4])
          /\ gen_i >= 1 => ((gen_i - 1) % Len(full_frames)) + 1 <= Len(face_det_results)
    /\ ~Detected => face_det_results = <<>>
\* The detector was run over 122 frames, in eight groups.
C33_Witness ==
    /\ stage = "batches"
    /\ Len(full_frames) = 122
    /\ Len(face_det_results) = 122
    /\ gen_i = 0

\* A name without its leading 'module.', if it has one.
StripLeading(k) ==
    IF Len(k) >= Len(ModulePrefix) /\ SubSeq(k, 1, Len(ModulePrefix)) = ModulePrefix
    THEN SubSeq(k, Len(ModulePrefix) + 1, Len(k))
    ELSE k
\* C34: every parameter taken from the checkpoint is bound under its name
\* without a leading 'module.': a name that does not start with it is bound
\* as it is, and what follows the prefix is bound as it is.
C34_StripsLeadingPrefixOnly ==
    \A i \in 1..ck_i :
        \E e \in 1..Len(new_state_dict) :
            new_state_dict[e][1] = StripLeading(state_dict[i][1])

\* The job file holds a job.
IsJob(f) == f # NoFile /\ f # Truncated
\* The lessons of the stored job that are completed.
CompletedLessons ==
    {i \in 1..Len(job_file.lesson_jobs) : job_file.lesson_jobs[i].status = "completed"}
\* C35: whenever the job file holds a job, after any calls of
\* update_lesson_job and retry_failed_step, its progress is
\* floor(100 * completed lessons / lessons), 0 for a job without lessons, and
\* lies in 0..100.
C35_ProgressMatchesLessons ==
    IsJob(job_file) =>
        /\ job_file.progress \in 0..100
        /\ job_file.progress =
              IF Len(job_file.lesson_jobs) = 0 THEN 0
              ELSE (100 * Cardinality(CompletedLessons)) \div Len(job_file.lesson_jobs)

\* Thread w has returned from update_lesson_job, called with an index that
\* is not negative.
Updated(w) ==
    /\ cpc[w] = "idle"
    /\ cret[w] = "returned"
    /\ cop[w].op = "update_lesson_job"
    /\ cop[w].lesson_index[1] >= 0
\* The position of the lesson the call of thread w named.
LessonOf(w) == ListPosition(cop[w].lesson_index[1], Len(job_file.lesson_jobs))
\* The stored lesson at position p has every field that updates gave.
HasUpdates(p, updates) ==
    \A f \in DOMAIN updates : job_file.lesson_jobs[p][f] = updates[f]
\* C36: when two threads have each returned from one update_lesson_job call
\* on the same job, for different lessons, the stored job holds the updates
\* of both, however their steps were interleaved.
C36_BothUpdatesStored ==
    \A w, v \in Jobs :
        (/\ w # v
         /\ ccalls = 2
         /\ Updated(w) /\ Updated(v)
         /\ IsJob(job_file)
         /\ LessonOf(w) # LessonOf(v))
            => /\ HasUpdates(LessonOf(w), cop[w].updates)
               /\ HasUpdates(LessonOf(v), cop[v].updates)

\* The last call made was a retry_failed_step of thread w and has ended;
\* cbefore[w] is the job file it found.
RetryEnded(w) ==
    /\ cop[w].op = "retry_failed_step"
    /\ cpc[w] = "idle"
    /\ cret[w] # "none"
    /\ \A v \in Jobs \ {w} : cop[v] = NoCall
\* lesson_index names a lesson of the job f.
InRange(lesson_index, f) ==
    lesson_index[1] >= 0 /\ lesson_index[1] < Len(f.lesson_jobs)
\* C37: retry_failed_step with a lesson index sets that lesson to 'pending'
\* with no error message and one more retry and leaves the other lessons and
\* the job's own fields as they were; without an index it sets the job's
\* status to 'pending', its current_step to 'queued' and its error_message
\* to None and leaves the lessons as they were; for an unknown job or an
\* index that names no lesson it raises and the file is as it was.
C37_RetryChangesOnlyItsTarget ==
    \A w \in Jobs :
        RetryEnded(w) =>
            LET old == cbefore[w]
                idx == cop[w].lesson_index
            IN  IF old = NoFile \/ (idx # <<>> /\ ~InRange(idx, old))
                THEN cret[w] # "returned" /\ job_file = old
                ELSE IF idx # <<>>
                THEN /\ cret[w] = "returned"
                     /\ job_file =
                           [old EXCEPT !.lesson_jobs[idx[1] + 1] =
                               [status |-> "pending", error_message |-> None,
                                retry_count |-> @.retry_count + 1]]
                ELSE /\ cret[w] = "returned"
                     /\ job_file =
                           [old EXCEPT !.status = "pending",
                                       !.current_step = "queued",
                                       !.error_message = None]

\* ------------------------------------------------- AuthService (refresh tokens)
\* auth_service.py on the table refresh_tokens. Every request of app.py opens
\* its own session (SessionLocal()), so a request sees the committed rows;
\* there is one user, whose row is never deleted. A token string is
\* secrets.token_urlsafe(64): each generated token is new, written 1..issued,
\* and the requests present tokens that a login returned.
SecondsPerDay == 86400
\* Settings of JWT_REFRESH_TOKEN_EXPIRES: an hour, and the default of 30 days.
RefreshExpiresSettings == {3600, 2592000}
expires_in_days == JWT_REFRESH_TOKEN_EXPIRES \div SecondsPerDay
\* RefreshToken.is_expired.
is_expired(row) == now > row.expires_at
\* query(RefreshToken).filter(RefreshToken.token == token).first()
QueryToken(token) ==
    IF \E r \in refresh_tokens : r.token = token
    THEN CHOOSE r \in refresh_tokens : r.token = token
    ELSE NoRow
\* The call ends, returning or raising `how`: its session and the row it held
\* are gone. The outcome of a refresh call that began after its token was
\* logged out or found expired is recorded.
AuthEnd(w, how) ==
    /\ apc' = [apc EXCEPT ![w] = "idle"]
    /\ acall' = [acall EXCEPT ![w] = NoAuthCall]
    /\ afound' = [afound EXCEPT ![w] = NoRow]
    /\ late_refreshes' =
           IF acall[w].op = "refresh_access_token" /\ acall[w].revoked
           THEN late_refreshes \cup {[token |-> acall[w].token, outcome |-> how]}
           ELSE late_refreshes

\* A request takes the first free slot: the free slots are alike.
FreeSlot(w) ==
    /\ apc[w] = "idle"
    /\ \A v \in Jobs : v < w => apc[v] # "idle"

\* A request calls refresh_access_token or logout_user with a token that a
\* login returned; the call opens with its query.
AuthCall(w) ==
    /\ FreeSlot(w)
    /\ \E op \in {"refresh_access_token", "logout_user"}, token \in 1..issued :
           /\ acall' = [acall EXCEPT ![w] =
                           [op |-> op, token |-> token,
                            revoked |-> token \in logged_out \cup expired_seen]]
           /\ afound' = [afound EXCEPT ![w] = QueryToken(token)]
           /\ apc' = [apc EXCEPT ![w] = op]
    /\ UNCHANGED <<wavVars, ckVars, courseVars, JWT_REFRESH_TOKEN_EXPIRES, now,
                   refresh_tokens, issued, late_refreshes, logged_out,
                   expired_seen>>

\* login_user: bad credentials raise; otherwise _create_refresh_token deletes
\* the user's expired rows and adds a row with a new token.
login_user(w) ==
    /\ FreeSlot(w)
    /\ \E credentials_ok \in BOOLEAN :
           IF ~credentials_ok
           THEN /\ AuthEnd(w, "ValueError: Invalid email or password")
                /\ UNCHANGED <<refresh_tokens, issued>>
           ELSE /\ issued < MaxTokens
                /\ refresh_tokens' =
                       {r \in refresh_tokens : ~(r.expires_at < now)}
                           \cup {[token |-> issued + 1,
                                  expires_at |-> now + expires_in_days]}
                /\ issued' = issued + 1
                /\ AuthEnd(w, "returned")
    /\ UNCHANGED <<wavVars, ckVars, courseVars, JWT_REFRESH_TOKEN_EXPIRES, now,
                   logged_out, expired_seen>>

\* A logout_user that leaves the row it found in the table.
logout_user_KeepsRow(w) ==
    /\ apc[w] = "logout_user"
    /\ refresh_tokens' = refresh_tokens
    /\ logged_out' = logged_out \cup {acall[w].token}
    /\ AuthEnd(w, "returned")
    /\ UNCHANGED <<wavVars, ckVars, courseVars, JWT_REFRESH_TOKEN_EXPIRES, now,
                   issued, expired_seen>>

\* logout_user after its query: deletes the row it found, if any. Deleting a
\* row another session has deleted meanwhile leaves it deleted.
logout_user(w) ==
    /\ apc[w] = "logout_user"
    /\ refresh_tokens' = IF afound[w] # NoRow
                         THEN refresh_tokens \ {afound[w]}
                         ELSE refresh_tokens
    /\ logged_out' = logged_out \cup {acall[w].token}
    /\ AuthEnd(w, "returned")
    /\ UNCHANGED <<wavVars, ckVars, courseVars, JWT_REFRESH_TOKEN_EXPIRES, now,
                   issued, expired_seen>>

\* refresh_access_token after its query.
refresh_access_token(w) ==
    /\ apc[w] = "refresh_access_token"
    /\ IF afound[w] = NoRow
       THEN /\ AuthEnd(w, "ValueError: Invalid refresh token")
            /\ UNCHANGED <<refresh_tokens, expired_seen>>
       ELSE IF is_expired(afound[w])
       THEN /\ refresh_tokens' = refresh_tokens \ {afound[w]}
            /\ expired_seen' = expired_seen \cup {acall[w].token}
            /\ AuthEnd(w, "ValueError: Refresh token expired")
       ELSE /\ AuthEnd(w, "access_token")
            /\ UNCHANGED <<refresh_tokens, expired_seen>>
    /\ UNCHANGED <<wavVars, ckVars, courseVars, JWT_REFRESH_TOKEN_EXPIRES, now,
                   issued, logged_out>>

\* A day passes.
Tick ==
    /\ now < MaxTime
    /\ now' = now + 1
    /\ UNCHANGED <<wavVars, ckVars, courseVars, JWT_REFRESH_TOKEN_EXPIRES,
                   refresh_tokens, issued, apc, acall, afound, late_refreshes,
                   logged_out, expired_seen>>

InitAuth ==
    /\ Installed
    /\ NatIdle
    /\ SharedIdle
    /\ ClampIdle
    /\ FirstRun
    /\ CheckpointIdle
    /\ CourseIdle
    /\ JWT_REFRESH_TOKEN_EXPIRES \in RefreshExpiresSettings
    /\ now = 0
    /\ refresh_tokens = {}
    /\ issued = 0
    /\ AuthRequestsIdle

NextAuth ==
    \/ \E w \in Jobs :
           \/ AuthCall(w)
           \/ login_user(w)
           \/ logout_user(w)
           \/ refresh_access_token(w)
    \/ Tick

SpecAuth == InitAuth /\ [][NextAuth]_vars

\* C38: a refresh_access_token call made after logout_user returned for its
\* token, or after a refresh attempt found the token expired, fails with
\* 'Invalid refresh token', and the row of such a token is no longer stored.
C38_RevokedTokenNeverRefreshes ==
    /\ \A r \in late_refreshes :
           r.outcome = "ValueError: Invalid refresh token"
    /\ \A t \in logged_out \cup expired_seen :
           \A r \in refresh_tokens : r.token # t
\* A refresh call was refused a token that a login had returned and that only
\* a logout can have deleted: no refresh attempt found it expired.
C38_Witness ==
    \E r \in late_refreshes :
        /\ r.outcome = "ValueError: Invalid refresh token"
        /\ r.token \in logged_out \ expired_seen
        /\ r.token >= 1

====
